---- MODULE Spec2Model ----
(***************************************************************************)
(* Hallar decision-support calculator: the risk-to-score pipeline of       *)
(* hallar_risk_factors (structural_factors, risk_sensitivities,            *)
(* risk_calculator, goal_scoring).                                         *)
(*                                                                         *)
(* Number representation.  TLC integers are 32 bit, so the floats of the   *)
(* program are held in fixed point:                                        *)
(*   - a base probability is an integer number of thousandths (Milli);     *)
(*   - a logarithm / log-odds value is an integer number of micro-nats     *)
(*     (Micro), computed by LnInt (atanh series) as math.log computes it;  *)
(*   - a factor effect base ** strength is the exact record                *)
(*     [n, d, k] = (n/d)^(k/2), strengths 0.5..2.0 being k = 1..4;         *)
(*   - a float probability produced by the sigmoid is held by its          *)
(*     log-odds coordinate in micro-nats, with the two exact endpoints     *)
(*     P_ZERO (0.0) and P_ONE (1.0); ValuePPM gives its magnitude in       *)
(*     millionths, computed with ExpNeg as 1/(1+exp(-x)).                  *)
(***************************************************************************)
EXTENDS Integers, Sequences, FiniteSets, TLC

VARIABLES call, result

vars == <<call, result>>

----
(* Fixed-point arithmetic *)

Milli == 10^3

Micro == 10^6

Max(a, b) == IF a >= b THEN a ELSE b

Min(a, b) == IF a <= b THEN a ELSE b

Abs(a) == IF a < 0 THEN -a ELSE a

\* x * y / Micro for 0 <= x <= 2 * Micro, without leaving 32 bits
MulMicro(x, y) ==
  LET ay == Abs(y)
      m == x * (ay \div Micro) + (x * ((ay \div Milli) % Milli)) \div Milli
           + (x * (ay % Milli)) \div Micro
  IN IF y < 0 THEN -m ELSE m

RECURSIVE Log2Floor(_)
Log2Floor(n) == IF n < 2 THEN 0 ELSE 1 + Log2Floor(n \div 2)

\* atanh(y) = y + y^3/3 + y^5/5 + ... with y, the result in micro units.
RECURSIVE AtanhTerms(_, _, _, _)
AtanhTerms(p, y2, i, acc) ==
  IF p = 0 \/ i > 40 THEN acc
  ELSE AtanhTerms(MulMicro(p, y2), y2, i + 1, acc + p \div (2 * i + 1))

Atanh(y) == AtanhTerms(y, MulMicro(y, y), 0, 0)

\* ln 2 = 2 atanh(1/3)
Ln2 == 2 * Atanh(Micro \div 3)

\* math.log(n) for an integer 1 <= n <= 2000, in micro-nats:
\* n = 2^k * m, 1 <= m < 2, ln m = 2 atanh((m - 1)/(m + 1)).
LnInt(n) ==
  LET k == Log2Floor(n)
      pw == 2^k
  IN k * Ln2 + 2 * Atanh(((n - pw) * Micro) \div (n + pw))

\* math.log(n / d), n, d positive integers.
LnRat(n, d) == LnInt(n) - LnInt(d)

\* exp(-t) in millionths for t >= 0 micro-nats: t = k ln2 + r,
\* exp(-r) by its Taylor series, then k halvings.
RECURSIVE ExpTerms(_, _, _, _)
ExpTerms(term, r, i, acc) ==
  IF term = 0 \/ i > 40 THEN acc
  ELSE ExpTerms(MulMicro(term, r) \div (i + 1), r, i + 1,
                IF i % 2 = 0 THEN acc + term ELSE acc - term)

ExpNeg(t) ==
  LET k == t \div Ln2
      r == t % Ln2
  IN IF k > 30 THEN 0 ELSE ExpTerms(Micro, r, 0, 0) \div (2^k)

----
(* Exceptions and absent values *)

\* A call returns a value, returns None, or raises: exc names the Python
\* exception ("none" when the call returns).
Ok(v) == [exc |-> "none", absent |-> FALSE, val |-> v]

ReturnNone == [exc |-> "none", absent |-> TRUE, val |-> << >>]

Raise(e) == [exc |-> e, absent |-> FALSE, val |-> << >>]

Returned(r) == r.exc = "none" /\ ~r.absent

----
(* structural_factors.py *)

ScenarioIds == {"S1", "S2", "S3", "S4", "S5", "S6", "S7", "S8", "S9", "S10", "S11"}

\* iteration order of SCENARIO_FACTORS.keys()
ScenarioIdSeq == <<"S1", "S2", "S3", "S4", "S5", "S6", "S7", "S8", "S9", "S10", "S11">>

\* the factor catalog (name_is in ASCII; descriptions left out)
STRUCTURAL_FACTORS ==
  [F1 |-> [id |-> "F1", name_is |-> "Flaekjustig akvardanatoku", name_en |-> "Decision Complexity"],
   F2 |-> [id |-> "F2", name_is |-> "Styrkur verktaka", name_en |-> "Contractor Strength"],
   F3 |-> [id |-> "F3", name_is |-> "Fjarmognunarthol", name_en |-> "Capital Resilience"],
   F4 |-> [id |-> "F4", name_is |-> "Samraeming skipulags og framkvaemda", name_en |-> "Planning-Execution Integration"],
   F5 |-> [id |-> "F5", name_is |-> "Fagleg stjornun", name_en |-> "Professional Management"],
   F6 |-> [id |-> "F6", name_is |-> "Reykjavikurborg sem eigandi", name_en |-> "City as Owner"]]

\* factor scores 1..5 of each scenario (names left out)
SCENARIO_FACTORS ==
  [sid \in ScenarioIds |->
    CASE sid = "S1" -> [F1 |-> 2, F2 |-> 2, F3 |-> 3, F4 |-> 3, F5 |-> 2, F6 |-> 5]
      [] sid = "S2" -> [F1 |-> 3, F2 |-> 3, F3 |-> 4, F4 |-> 3, F5 |-> 3, F6 |-> 4]
      [] sid = "S3" -> [F1 |-> 4, F2 |-> 5, F3 |-> 4, F4 |-> 5, F5 |-> 4, F6 |-> 3]
      [] sid = "S4" -> [F1 |-> 2, F2 |-> 3, F3 |-> 5, F4 |-> 3, F5 |-> 3, F6 |-> 1]
      [] sid = "S5" -> [F1 |-> 2, F2 |-> 4, F3 |-> 5, F4 |-> 4, F5 |-> 5, F6 |-> 1]
      [] sid = "S6" -> [F1 |-> 2, F2 |-> 5, F3 |-> 5, F4 |-> 5, F5 |-> 4, F6 |-> 1]
      [] sid = "S7" -> [F1 |-> 2, F2 |-> 4, F3 |-> 5, F4 |-> 4, F5 |-> 4, F6 |-> 1]
      [] sid = "S8" -> [F1 |-> 3, F2 |-> 2, F3 |-> 3, F4 |-> 1, F5 |-> 2, F6 |-> 1]
      [] sid = "S9" -> [F1 |-> 1, F2 |-> 4, F3 |-> 1, F4 |-> 5, F5 |-> 4, F6 |-> 1]
      [] sid = "S10" -> [F1 |-> 3, F2 |-> 4, F3 |-> 1, F4 |-> 4, F5 |-> 3, F6 |-> 1]
      [] sid = "S11" -> [F1 |-> 5, F2 |-> 1, F3 |-> 1, F4 |-> 1, F5 |-> 1, F6 |-> 1]]

\* ScenarioFactors.get_factor: getattr(self, factor_id); a factor the
\* dataclass does not declare raises AttributeError.
get_factor(scenario, factor_id) ==
  IF factor_id \in DOMAIN scenario THEN Ok(scenario[factor_id])
  ELSE Raise("AttributeError")

get_scenario_profile(scenario_id) ==
  IF scenario_id \notin ScenarioIds THEN << >>
  ELSE LET sf == SCENARIO_FACTORS[scenario_id]
       IN [F1 |-> sf.F1, F2 |-> sf.F2, F3 |-> sf.F3, F4 |-> sf.F4,
           F5 |-> sf.F5, F6 |-> sf.F6]

----
(* risk_sensitivities.py *)

\* FactorDirection
FactorDirection == {"PROTECTIVE", "EXPOSURE"}

\* Sensitivity: the enum values 0.5, 1.0, 1.5, 2.0, held in halves.
Sensitivity == [LOW |-> 1, MEDIUM |-> 2, HIGH |-> 3, CRITICAL |-> 4]

\* iteration order of RISK_PROFILES.items()
RiskIds == <<"R01", "R02", "R03", "R04", "R05", "R06", "R08", "R09", "R10", "R11", "R12",
             "R13", "R14", "R15", "R17", "R18", "R19", "R20", "R22", "R23", "R24", "R25",
             "R26", "R27", "R29", "R30", "R31", "R32", "R33", "R34", "R35", "R36", "R37">>

RiskIdSet == {RiskIds[i] : i \in DOMAIN RiskIds}

\* base probabilities in thousandths; requires_factors None is << >>
RISK_PROFILES ==
  [rid \in RiskIdSet |->
    CASE rid = "R01" ->
        [base_prob_low |-> 200, base_prob_likely |-> 400, base_prob_high |-> 650,
          affected_goals |-> <<"G1", "G2", "G4">>,
          sensitivities |-> <<[factor_id |-> "F5", direction |-> "PROTECTIVE", sensitivity |-> "MEDIUM"],
                              [factor_id |-> "F6", direction |-> "PROTECTIVE", sensitivity |-> "LOW"]>>,
          requires_factors |-> <<>>]
      [] rid = "R02" ->
        [base_prob_low |-> 100, base_prob_likely |-> 250, base_prob_high |-> 450,
          affected_goals |-> <<"G1", "G2", "G4", "G5", "G9">>,
          sensitivities |-> <<[factor_id |-> "F6", direction |-> "EXPOSURE", sensitivity |-> "LOW"]>>,
          requires_factors |-> <<>>]
      [] rid = "R03" ->
        [base_prob_low |-> 150, base_prob_likely |-> 350, base_prob_high |-> 600,
          affected_goals |-> <<"G2", "G3", "G5", "G10">>,
          sensitivities |-> <<[factor_id |-> "F4", direction |-> "PROTECTIVE", sensitivity |-> "LOW"],
                              [factor_id |-> "F5", direction |-> "PROTECTIVE", sensitivity |-> "MEDIUM"]>>,
          requires_factors |-> <<>>]
      [] rid = "R04" ->
        [base_prob_low |-> 300, base_prob_likely |-> 550, base_prob_high |-> 800,
          affected_goals |-> <<"G1", "G2", "G3", "G5", "G10">>,
          sensitivities |-> <<[factor_id |-> "F4", direction |-> "PROTECTIVE", sensitivity |-> "CRITICAL"],
                              [factor_id |-> "F5", direction |-> "PROTECTIVE", sensitivity |-> "MEDIUM"],
                              [factor_id |-> "F7", direction |-> "PROTECTIVE", sensitivity |-> "MEDIUM"]>>,
          requires_factors |-> <<>>]
      [] rid = "R05" ->
        [base_prob_low |-> 80, base_prob_likely |-> 180, base_prob_high |-> 350,
          affected_goals |-> <<"G1", "G2">>,
          sensitivities |-> <<[factor_id |-> "F5", direction |-> "PROTECTIVE", sensitivity |-> "LOW"]>>,
          requires_factors |-> <<>>]
      [] rid = "R06" ->
        [base_prob_low |-> 30, base_prob_likely |-> 100, base_prob_high |-> 200,
          affected_goals |-> <<"G1", "G4">>,
          sensitivities |-> <<>>,
          requires_factors |-> <<>>]
      [] rid = "R08" ->
        [base_prob_low |-> 200, base_prob_likely |-> 450, base_prob_high |-> 700,
          affected_goals |-> <<"G4", "G6">>,
          sensitivities |-> <<[factor_id |-> "F5", direction |-> "PROTECTIVE", sensitivity |-> "HIGH"],
                              [factor_id |-> "F7", direction |-> "PROTECTIVE", sensitivity |-> "MEDIUM"]>>,
          requires_factors |-> <<>>]
      [] rid = "R09" ->
        [base_prob_low |-> 100, base_prob_likely |-> 250, base_prob_high |-> 450,
          affected_goals |-> <<"G4", "G6", "G7">>,
          sensitivities |-> <<[factor_id |-> "F5", direction |-> "PROTECTIVE", sensitivity |-> "HIGH"],
                              [factor_id |-> "F7", direction |-> "PROTECTIVE", sensitivity |-> "HIGH"],
                              [factor_id |-> "F6", direction |-> "PROTECTIVE", sensitivity |-> "LOW"]>>,
          requires_factors |-> <<>>]
      [] rid = "R10" ->
        [base_prob_low |-> 150, base_prob_likely |-> 380, base_prob_high |-> 600,
          affected_goals |-> <<"G1", "G2", "G6">>,
          sensitivities |-> <<[factor_id |-> "F5", direction |-> "PROTECTIVE", sensitivity |-> "HIGH"],
                              [factor_id |-> "F6", direction |-> "PROTECTIVE", sensitivity |-> "MEDIUM"],
                              [factor_id |-> "F1", direction |-> "EXPOSURE", sensitivity |-> "MEDIUM"]>>,
          requires_factors |-> <<>>]
      [] rid = "R11" ->
        [base_prob_low |-> 50, base_prob_likely |-> 150, base_prob_high |-> 300,
          affected_goals |-> <<"G2", "G5", "G8", "G10">>,
          sensitivities |-> <<[factor_id |-> "F2", direction |-> "PROTECTIVE", sensitivity |-> "CRITICAL"],
                              [factor_id |-> "F3", direction |-> "PROTECTIVE", sensitivity |-> "HIGH"],
                              [factor_id |-> "F1", direction |-> "EXPOSURE", sensitivity |-> "MEDIUM"],
                              [factor_id |-> "F7", direction |-> "PROTECTIVE", sensitivity |-> "LOW"]>>,
          requires_factors |-> <<>>]
      [] rid = "R12" ->
        [base_prob_low |-> 200, base_prob_likely |-> 450, base_prob_high |-> 700,
          affected_goals |-> <<"G2", "G3", "G5", "G10">>,
          sensitivities |-> <<[factor_id |-> "F4", direction |-> "PROTECTIVE", sensitivity |-> "HIGH"],
                              [factor_id |-> "F2", direction |-> "PROTECTIVE", sensitivity |-> "MEDIUM"],
                              [factor_id |-> "F5", direction |-> "PROTECTIVE", sensitivity |-> "MEDIUM"],
                              [factor_id |-> "F3", direction |-> "PROTECTIVE", sensitivity |-> "MEDIUM"]>>,
          requires_factors |-> <<>>]
      [] rid = "R13" ->
        [base_prob_low |-> 200, base_prob_likely |-> 420, base_prob_high |-> 680,
          affected_goals |-> <<"G2">>,
          sensitivities |-> <<[factor_id |-> "F2", direction |-> "PROTECTIVE", sensitivity |-> "MEDIUM"],
                              [factor_id |-> "F4", direction |-> "PROTECTIVE", sensitivity |-> "HIGH"],
                              [factor_id |-> "F5", direction |-> "PROTECTIVE", sensitivity |-> "MEDIUM"],
                              [factor_id |-> "F1", direction |-> "EXPOSURE", sensitivity |-> "MEDIUM"]>>,
          requires_factors |-> <<>>]
      [] rid = "R14" ->
        [base_prob_low |-> 150, base_prob_likely |-> 350, base_prob_high |-> 580,
          affected_goals |-> <<"G8">>,
          sensitivities |-> <<[factor_id |-> "F2", direction |-> "PROTECTIVE", sensitivity |-> "HIGH"],
                              [factor_id |-> "F5", direction |-> "PROTECTIVE", sensitivity |-> "MEDIUM"],
                              [factor_id |-> "F7", direction |-> "PROTECTIVE", sensitivity |-> "MEDIUM"]>>,
          requires_factors |-> <<>>]
      [] rid = "R15" ->
        [base_prob_low |-> 150, base_prob_likely |-> 350, base_prob_high |-> 580,
          affected_goals |-> <<"G2", "G8">>,
          sensitivities |-> <<[factor_id |-> "F2", direction |-> "PROTECTIVE", sensitivity |-> "HIGH"],
                              [factor_id |-> "F1", direction |-> "EXPOSURE", sensitivity |-> "MEDIUM"]>>,
          requires_factors |-> <<>>]
      [] rid = "R17" ->
        [base_prob_low |-> 200, base_prob_likely |-> 450, base_prob_high |-> 720,
          affected_goals |-> <<"G1", "G2", "G7", "G8">>,
          sensitivities |-> <<[factor_id |-> "F1", direction |-> "EXPOSURE", sensitivity |-> "CRITICAL"],
                              [factor_id |-> "F5", direction |-> "PROTECTIVE", sensitivity |-> "HIGH"],
                              [factor_id |-> "F4", direction |-> "PROTECTIVE", sensitivity |-> "MEDIUM"],
                              [factor_id |-> "F2", direction |-> "PROTECTIVE", sensitivity |-> "LOW"]>>,
          requires_factors |-> <<>>]
      [] rid = "R18" ->
        [base_prob_low |-> 80, base_prob_likely |-> 220, base_prob_high |-> 420,
          affected_goals |-> <<"G2", "G5">>,
          sensitivities |-> <<[factor_id |-> "F3", direction |-> "PROTECTIVE", sensitivity |-> "CRITICAL"]>>,
          requires_factors |-> <<>>]
      [] rid = "R19" ->
        [base_prob_low |-> 100, base_prob_likely |-> 250, base_prob_high |-> 450,
          affected_goals |-> <<"G5">>,
          sensitivities |-> <<[factor_id |-> "F3", direction |-> "PROTECTIVE", sensitivity |-> "CRITICAL"]>>,
          requires_factors |-> <<>>]
      [] rid = "R20" ->
        [base_prob_low |-> 120, base_prob_likely |-> 280, base_prob_high |-> 480,
          affected_goals |-> <<"G2", "G3", "G5">>,
          sensitivities |-> <<[factor_id |-> "F3", direction |-> "PROTECTIVE", sensitivity |-> "CRITICAL"]>>,
          requires_factors |-> <<>>]
      [] rid = "R22" ->
        [base_prob_low |-> 50, base_prob_likely |-> 150, base_prob_high |-> 350,
          affected_goals |-> <<"G2", "G5">>,
          sensitivities |-> <<[factor_id |-> "F3", direction |-> "PROTECTIVE", sensitivity |-> "CRITICAL"]>>,
          requires_factors |-> <<>>]
      [] rid = "R23" ->
        [base_prob_low |-> 30, base_prob_likely |-> 100, base_prob_high |-> 220,
          affected_goals |-> <<"G2", "G5", "G9">>,
          sensitivities |-> <<[factor_id |-> "F1", direction |-> "EXPOSURE", sensitivity |-> "HIGH"]>>,
          requires_factors |-> <<[factor_id |-> "F3", min_val |-> 3, max_val |-> 5]>>]
      [] rid = "R24" ->
        [base_prob_low |-> 100, base_prob_likely |-> 250, base_prob_high |-> 450,
          affected_goals |-> <<"G2", "G5", "G9", "G10">>,
          sensitivities |-> <<>>,
          requires_factors |-> <<>>]
      [] rid = "R25" ->
        [base_prob_low |-> 50, base_prob_likely |-> 120, base_prob_high |-> 250,
          affected_goals |-> <<"G1", "G2">>,
          sensitivities |-> <<>>,
          requires_factors |-> <<>>]
      [] rid = "R26" ->
        [base_prob_low |-> 80, base_prob_likely |-> 200, base_prob_high |-> 380,
          affected_goals |-> <<"G1", "G2", "G5", "G9">>,
          sensitivities |-> <<>>,
          requires_factors |-> <<>>]
      [] rid = "R27" ->
        [base_prob_low |-> 120, base_prob_likely |-> 300, base_prob_high |-> 550,
          affected_goals |-> <<"G1", "G2", "G4", "G5", "G9">>,
          sensitivities |-> <<[factor_id |-> "F1", direction |-> "EXPOSURE", sensitivity |-> "CRITICAL"],
                              [factor_id |-> "F5", direction |-> "PROTECTIVE", sensitivity |-> "HIGH"],
                              [factor_id |-> "F7", direction |-> "PROTECTIVE", sensitivity |-> "MEDIUM"]>>,
          requires_factors |-> <<>>]
      [] rid = "R29" ->
        [base_prob_low |-> 150, base_prob_likely |-> 350, base_prob_high |-> 550,
          affected_goals |-> <<"G4", "G7", "G8">>,
          sensitivities |-> <<[factor_id |-> "F7", direction |-> "PROTECTIVE", sensitivity |-> "HIGH"],
                              [factor_id |-> "F2", direction |-> "PROTECTIVE", sensitivity |-> "MEDIUM"]>>,
          requires_factors |-> <<>>]
      [] rid = "R30" ->
        [base_prob_low |-> 150, base_prob_likely |-> 300, base_prob_high |-> 500,
          affected_goals |-> <<"G3", "G4", "G9", "G10">>,
          sensitivities |-> <<[factor_id |-> "F7", direction |-> "PROTECTIVE", sensitivity |-> "CRITICAL"],
                              [factor_id |-> "F5", direction |-> "PROTECTIVE", sensitivity |-> "HIGH"],
                              [factor_id |-> "F6", direction |-> "PROTECTIVE", sensitivity |-> "HIGH"]>>,
          requires_factors |-> <<>>]
      [] rid = "R31" ->
        [base_prob_low |-> 100, base_prob_likely |-> 250, base_prob_high |-> 450,
          affected_goals |-> <<"G1", "G2", "G4", "G5">>,
          sensitivities |-> <<[factor_id |-> "F5", direction |-> "PROTECTIVE", sensitivity |-> "HIGH"],
                              [factor_id |-> "F1", direction |-> "EXPOSURE", sensitivity |-> "MEDIUM"],
                              [factor_id |-> "F4", direction |-> "PROTECTIVE", sensitivity |-> "MEDIUM"]>>,
          requires_factors |-> <<>>]
      [] rid = "R32" ->
        [base_prob_low |-> 120, base_prob_likely |-> 280, base_prob_high |-> 480,
          affected_goals |-> <<"G5", "G7", "G9">>,
          sensitivities |-> <<[factor_id |-> "F6", direction |-> "EXPOSURE", sensitivity |-> "MEDIUM"],
                              [factor_id |-> "F5", direction |-> "PROTECTIVE", sensitivity |-> "HIGH"]>>,
          requires_factors |-> <<>>]
      [] rid = "R33" ->
        [base_prob_low |-> 150, base_prob_likely |-> 350, base_prob_high |-> 580,
          affected_goals |-> <<"G10">>,
          sensitivities |-> <<[factor_id |-> "F7", direction |-> "PROTECTIVE", sensitivity |-> "CRITICAL"],
                              [factor_id |-> "F6", direction |-> "PROTECTIVE", sensitivity |-> "MEDIUM"]>>,
          requires_factors |-> <<>>]
      [] rid = "R34" ->
        [base_prob_low |-> 400, base_prob_likely |-> 650, base_prob_high |-> 850,
          affected_goals |-> <<"G2", "G4", "G9">>,
          sensitivities |-> <<[factor_id |-> "F5", direction |-> "PROTECTIVE", sensitivity |-> "HIGH"],
                              [factor_id |-> "F7", direction |-> "PROTECTIVE", sensitivity |-> "MEDIUM"]>>,
          requires_factors |-> <<[factor_id |-> "F6", min_val |-> 3, max_val |-> 4]>>]
      [] rid = "R35" ->
        [base_prob_low |-> 350, base_prob_likely |-> 550, base_prob_high |-> 800,
          affected_goals |-> <<"G1", "G2", "G5">>,
          sensitivities |-> <<[factor_id |-> "F6", direction |-> "EXPOSURE", sensitivity |-> "HIGH"],
                              [factor_id |-> "F5", direction |-> "PROTECTIVE", sensitivity |-> "MEDIUM"]>>,
          requires_factors |-> <<[factor_id |-> "F6", min_val |-> 3, max_val |-> 5]>>]
      [] rid = "R36" ->
        [base_prob_low |-> 80, base_prob_likely |-> 200, base_prob_high |-> 400,
          affected_goals |-> <<"G2", "G4", "G5", "G9">>,
          sensitivities |-> <<[factor_id |-> "F1", direction |-> "EXPOSURE", sensitivity |-> "HIGH"],
                              [factor_id |-> "F7", direction |-> "PROTECTIVE", sensitivity |-> "HIGH"],
                              [factor_id |-> "F5", direction |-> "PROTECTIVE", sensitivity |-> "MEDIUM"]>>,
          requires_factors |-> <<>>]
      [] rid = "R37" ->
        [base_prob_low |-> 200, base_prob_likely |-> 400, base_prob_high |-> 650,
          affected_goals |-> <<"G1", "G2", "G5", "G9">>,
          sensitivities |-> <<[factor_id |-> "F6", direction |-> "EXPOSURE", sensitivity |-> "HIGH"],
                              [factor_id |-> "F7", direction |-> "PROTECTIVE", sensitivity |-> "MEDIUM"],
                              [factor_id |-> "F5", direction |-> "PROTECTIVE", sensitivity |-> "LOW"]>>,
          requires_factors |-> <<[factor_id |-> "F6", min_val |-> 3, max_val |-> 5]>>]]

----
(* risk_calculator.py *)

NEUTRAL_FACTOR == 3

\* Effects and display modifiers are exact: [n, d, k] is (n/d)^(k/2), d > 0.
Eff(n, d, k) == [n |-> n, d |-> d, k |-> k]

\* the floats 0.0 and 1.0 in that form
EFF_ZERO == Eff(0, 1, 2)

EFF_ONE == Eff(1, 1, 2)

\* a < b, by comparing the squares
EffLess(a, b) ==
  IF a.n <= 0 \/ b.n <= 0 THEN (a.n * b.d < b.n * a.d)
  ELSE (a.n ^ a.k) * (b.d ^ b.k) < (b.n ^ b.k) * (a.d ^ a.k)

EffEq(a, b) == ~EffLess(a, b) /\ ~EffLess(b, a)

\* a * b (both positive, or one of them 0.0)
EffMul(a, b) ==
  Eff((a.n ^ a.k) * (b.n ^ b.k), (a.d ^ a.k) * (b.d ^ b.k), 1)

\* min(0.2, base_effect) where the code has max
FloorBase_min(n, d) ==
  IF 5 * n < d THEN [n |-> n, d |-> d] ELSE [n |-> 1, d |-> 5]

\* max(0.2, base_effect), base_effect = n/d
FloorBase(n, d) ==
  IF 5 * n < d THEN [n |-> 1, d |-> 5] ELSE [n |-> n, d |-> d]

\* base_effect * sensitivity.value where the code has base_effect ** sensitivity.value
calculate_factor_effect_times(factor_score, direction, sensitivity) ==
  LET deviation == factor_score - NEUTRAL_FACTOR
      num == IF direction = "PROTECTIVE" THEN NEUTRAL_FACTOR
             ELSE NEUTRAL_FACTOR + deviation
      den == IF direction = "PROTECTIVE" THEN NEUTRAL_FACTOR + deviation
             ELSE NEUTRAL_FACTOR
      base_effect == IF den < 0 THEN FloorBase(-num, -den) ELSE FloorBase(num, den)
  IN IF den = 0 THEN Raise("ZeroDivisionError")
     ELSE Ok(Eff(base_effect.n * Sensitivity[sensitivity], base_effect.d * 2, 2))

calculate_factor_effect(factor_score, direction, sensitivity) ==
  LET deviation == factor_score - NEUTRAL_FACTOR
      num == IF direction = "PROTECTIVE" THEN NEUTRAL_FACTOR
             ELSE NEUTRAL_FACTOR + deviation
      den == IF direction = "PROTECTIVE" THEN NEUTRAL_FACTOR + deviation
             ELSE NEUTRAL_FACTOR
      \* keep the denominator positive
      base_effect == IF den < 0 THEN FloorBase(-num, -den) ELSE FloorBase(num, den)
  IN IF den = 0 THEN Raise("ZeroDivisionError")
     ELSE Ok(Eff(base_effect.n, base_effect.d, Sensitivity[sensitivity]))

\* Float probabilities: the log-odds coordinate in micro-nats, and the two
\* exact endpoints 0.0 and 1.0 below and above every coordinate.
P_ZERO == -(2^30)

P_ONE == 2^30

\* PROB_FLOOR = 1e-15 and PROB_CEIL = 1.0 - 1e-15 as coordinates
PROB_FLOOR == -(15 * LnInt(10))

PROB_CEIL == 15 * LnInt(10)

\* the thresholds 700 / -700 on the log-odds
LOG_ODDS_LIMIT == 700 * Micro

\* math.exp(t) raises OverflowError from t = ln(2^1024) on
ExpOverflows(t) == t >= 1024 * Ln2

\* 1.0 / (1.0 + math.exp(-x)) in float64: exactly 1.0 once exp(-x) <= 2^-53,
\* never exactly 0.0 while exp(-x) is finite.
Sigmoid(x) == IF x >= 53 * Ln2 THEN P_ONE ELSE x

\* the final clamp left out
ClampProb_none(p) == p

\* max(PROB_FLOOR, min(PROB_CEIL, adjusted_prob))
ClampProb(p) == Max(PROB_FLOOR, Min(PROB_CEIL, p))

\* magnitude of a float probability in millionths: 1 / (1 + exp(-x))
ValuePPM(p) ==
  LET Value(a) == ((Milli * Micro) \div a) * Milli + (((Milli * Micro) % a) * Milli) \div a
      Magnitude(v) == IF p >= 0 THEN v ELSE Micro - v
  IN IF p = P_ZERO THEN 0
     ELSE IF p = P_ONE THEN Micro
     ELSE Magnitude(Value(Micro + ExpNeg(Abs(p))))

\* the input clamp at 0.01 and 0.99
ClampBase_centi(base_prob) == Max(10, Min(990, base_prob))

\* max(0.001, min(0.999, base_prob)), base_prob in thousandths
ClampBase(base_prob) == Max(1, Min(999, base_prob))

\* max(0.001, effect)
FloorEffect(effect) ==
  IF effect.n <= 0 \/ effect.k * LnRat(effect.n, effect.d) < 2 * LnRat(1, Milli)
  THEN Eff(1, Milli, 2) ELSE effect

\* the logarithm taken of 1 / effect
LogEffect_inverse(effect) == (effect.k * LnRat(effect.d, effect.n)) \div 2

\* math.log(effect) in micro-nats (ValueError for effect <= 0)
LogEffect(effect) == (effect.k * LnRat(effect.n, effect.d)) \div 2

RECURSIVE SumSeq(_)
SumSeq(s) == IF s = << >> THEN 0 ELSE s[1] + SumSeq(Tail(s))

\* round(x, 4) of a value in micro units
Round4(x) == ((x + 50) \div 100) * 100

\* Each step is an operator of the values computed before it, in the order
\* of the code.
_logistic_transform(base_prob, factor_effects) ==
  LET Return(bp, base_log_odds, adjustments, total_adjustment, adjusted_log_odds, adjusted_prob) ==
        Ok([prob |-> adjusted_prob,
            details |-> [base_prob |-> bp,
                         base_log_odds |-> Round4(base_log_odds),
                         adjustments |-> [i \in DOMAIN adjustments |-> Round4(adjustments[i])],
                         total_adjustment |-> Round4(total_adjustment),
                         adjusted_log_odds |-> Round4(adjusted_log_odds),
                         final_prob |-> adjusted_prob]])
      Transform(bp, base_log_odds, adjustments, total_adjustment, adjusted_log_odds) ==
        IF Abs(adjusted_log_odds) <= LOG_ODDS_LIMIT /\ ExpOverflows(-adjusted_log_odds)
        THEN Raise("OverflowError")
        ELSE Return(bp, base_log_odds, adjustments, total_adjustment, adjusted_log_odds,
                    ClampProb(IF adjusted_log_odds > LOG_ODDS_LIMIT THEN PROB_CEIL
                              ELSE IF adjusted_log_odds < -LOG_ODDS_LIMIT THEN PROB_FLOOR
                              ELSE Sigmoid(adjusted_log_odds)))
      Total(bp, base_log_odds, adjustments, total_adjustment) ==
        Transform(bp, base_log_odds, adjustments, total_adjustment,
                  base_log_odds + total_adjustment)
      Adjust(bp, base_log_odds, adjustments) ==
        Total(bp, base_log_odds, adjustments, SumSeq(adjustments))
      LogOdds(bp, floored) ==
        IF bp >= Milli THEN Raise("ZeroDivisionError")
        ELSE IF bp <= 0 THEN Raise("ValueError")
        ELSE IF \E i \in DOMAIN floored : floored[i].n <= 0 THEN Raise("ValueError")
        ELSE Adjust(bp, LnRat(bp, Milli - bp),
                    [i \in DOMAIN floored |-> LogEffect(floored[i])])
  IN LogOdds(ClampBase(base_prob),
             [i \in DOMAIN factor_effects |-> FloorEffect(factor_effects[i])])

\* the third field of a breakdown tuple: f"{name} = {score}: {impact}", the
\* impact wording chosen by the thresholds 0.9 and 1.1
ImpactText(factor_id, factor_score, effect) ==
  [name |-> IF factor_id \in DOMAIN STRUCTURAL_FACTORS
            THEN STRUCTURAL_FACTORS[factor_id].name_is ELSE factor_id,
   score |-> factor_score,
   impact |-> IF EffLess(effect, Eff(9, 10, 2)) THEN "reduces risk"
              ELSE IF EffLess(Eff(11, 10, 2), effect) THEN "increases risk"
              ELSE "neutral"]

NOT_APPLICABLE == "Risk does not apply to this scenario"

\* the applicability loop over requires_factors.items(): the id of the first
\* gating factor whose score is outside [min_val, max_val], "" when none is
RECURSIVE CheckGates(_, _)
CheckGates(scenario, requires_factors) ==
  IF requires_factors = << >> THEN Ok("")
  ELSE LET gate == Head(requires_factors)
           factor_score == get_factor(scenario, gate.factor_id)
       IN IF factor_score.exc # "none" THEN factor_score
          ELSE IF ~(gate.min_val <= factor_score.val /\ factor_score.val <= gate.max_val)
               THEN Ok(gate.factor_id)
          ELSE CheckGates(scenario, Tail(requires_factors))

\* the loop of calculate_scenario_modifier over risk_profile.sensitivities
RECURSIVE ModifierLoop(_, _, _, _)
ModifierLoop(scenario, sensitivities, combined_modifier, breakdown) ==
  IF sensitivities = << >>
  THEN Ok([modifier |-> combined_modifier, breakdown |-> breakdown])
  ELSE LET sens == Head(sensitivities)
           factor_score == get_factor(scenario, sens.factor_id)
           effect == calculate_factor_effect(factor_score.val, sens.direction, sens.sensitivity)
       IN IF factor_score.exc # "none" THEN factor_score
          ELSE IF effect.exc # "none" THEN effect
          ELSE ModifierLoop(scenario, Tail(sensitivities),
                            EffMul(combined_modifier, effect.val),
                            Append(breakdown,
                                   [factor_id |-> sens.factor_id, effect |-> effect.val,
                                    text |-> ImpactText(sens.factor_id, factor_score.val, effect.val)]))

\* risk_profile is passed by id: the RiskProfile object RISK_PROFILES[risk_id]
calculate_scenario_modifier(scenario_id, risk_id) ==
  IF scenario_id \notin ScenarioIds
  THEN Ok([modifier |-> EFF_ONE, breakdown |-> << >>])
  ELSE LET scenario == SCENARIO_FACTORS[scenario_id]
           risk_profile == RISK_PROFILES[risk_id]
           gate == CheckGates(scenario, risk_profile.requires_factors)
       IN IF gate.exc # "none" THEN gate
          ELSE IF gate.val # ""
               THEN Ok([modifier |-> EFF_ZERO,
                        breakdown |-> <<[factor_id |-> gate.val, effect |-> EFF_ZERO,
                                         text |-> NOT_APPLICABLE]>>])
          ELSE ModifierLoop(scenario, risk_profile.sensitivities, EFF_ONE, << >>)

\* the loop of calculate_adjusted_probability over risk_profile.sensitivities
RECURSIVE EffectsLoop(_, _, _, _)
EffectsLoop(scenario, sensitivities, effects, breakdown) ==
  IF sensitivities = << >>
  THEN Ok([effects |-> effects, breakdown |-> breakdown])
  ELSE LET sens == Head(sensitivities)
           factor_score == get_factor(scenario, sens.factor_id)
           effect == calculate_factor_effect(factor_score.val, sens.direction, sens.sensitivity)
       IN IF factor_score.exc # "none" THEN factor_score
          ELSE IF effect.exc # "none" THEN effect
          ELSE EffectsLoop(scenario, Tail(sensitivities),
                           Append(effects, effect.val),
                           Append(breakdown,
                                  [factor_id |-> sens.factor_id, effect |-> effect.val,
                                   text |-> ImpactText(sens.factor_id, factor_score.val, effect.val)]))

\* display_modifier = 1.0; for e in effects: display_modifier *= e
RECURSIVE DisplayModifier(_, _)
DisplayModifier(effects, display_modifier) ==
  IF effects = << >> THEN display_modifier
  ELSE DisplayModifier(Tail(effects), EffMul(display_modifier, Head(effects)))

\* the value returned for an unknown id and for a risk that does not apply
NoProbability(modifier, breakdown) ==
  Ok([adjusted_prob |-> <<P_ZERO, P_ZERO, P_ZERO>>, modifier |-> modifier,
      breakdown |-> breakdown])

calculate_adjusted_probability(scenario_id, risk_id) ==
  LET Return(collected, prob_low, prob_likely, prob_high) ==
        IF prob_low.exc # "none" THEN prob_low
        ELSE IF prob_likely.exc # "none" THEN prob_likely
        ELSE IF prob_high.exc # "none" THEN prob_high
        ELSE Ok([adjusted_prob |-> <<prob_low.val.prob, prob_likely.val.prob, prob_high.val.prob>>,
                 modifier |-> DisplayModifier(collected.val.effects, EFF_ONE),
                 breakdown |-> collected.val.breakdown])
      Transform(risk_profile, collected) ==
        IF collected.exc # "none" THEN collected
        ELSE Return(collected,
                    _logistic_transform(risk_profile.base_prob_low, collected.val.effects),
                    _logistic_transform(risk_profile.base_prob_likely, collected.val.effects),
                    _logistic_transform(risk_profile.base_prob_high, collected.val.effects))
      Collect(risk_profile, scenario, gate) ==
        IF gate.exc # "none" THEN gate
        ELSE IF gate.val # ""
             THEN NoProbability(EFF_ZERO,
                                <<[factor_id |-> gate.val, effect |-> EFF_ZERO,
                                   text |-> NOT_APPLICABLE]>>)
        ELSE Transform(risk_profile,
                       EffectsLoop(scenario, risk_profile.sensitivities, << >>, << >>))
      Check(risk_profile, scenario) ==
        Collect(risk_profile, scenario, CheckGates(scenario, risk_profile.requires_factors))
  IN IF risk_id \notin RiskIdSet THEN NoProbability(EFF_ONE, << >>)
     ELSE IF scenario_id \notin ScenarioIds THEN NoProbability(EFF_ONE, << >>)
     ELSE Check(RISK_PROFILES[risk_id], SCENARIO_FACTORS[scenario_id])

\* the loop of calculate_scenario_risk_profile over RISK_PROFILES.items()
\* (name_is, name_en and category of a ScenarioRiskResult left out)
RECURSIVE RiskProfileLoop(_, _, _)
RiskProfileLoop(scenario_id, risk_ids, results) ==
  LET Result(risk_id, adjusted) ==
        IF adjusted.exc # "none" THEN adjusted
        ELSE IF adjusted.val.modifier.n = 0
             THEN RiskProfileLoop(scenario_id, Tail(risk_ids), results)
        ELSE RiskProfileLoop(scenario_id, Tail(risk_ids),
               Append(results,
                      [risk_id |-> risk_id,
                       prob_low |-> adjusted.val.adjusted_prob[1],
                       prob_likely |-> adjusted.val.adjusted_prob[2],
                       prob_high |-> adjusted.val.adjusted_prob[3],
                       modifier |-> adjusted.val.modifier,
                       affected_goals |-> RISK_PROFILES[risk_id].affected_goals,
                       breakdown |-> adjusted.val.breakdown]))
  IN IF risk_ids = << >> THEN Ok(results)
     ELSE Result(Head(risk_ids), calculate_adjusted_probability(scenario_id, Head(risk_ids)))

\* the unknown-scenario test left out: scenario is None and scenario.name_is raises
calculate_scenario_risk_profile_unguarded(scenario_id) ==
  LET Return(results) ==
        IF results.exc # "none" THEN results
        ELSE IF scenario_id \notin ScenarioIds THEN Raise("AttributeError")
        ELSE Ok([scenario_id |-> scenario_id,
                 factor_scores |-> get_scenario_profile(scenario_id),
                 risks |-> results.val])
  IN Return(RiskProfileLoop(scenario_id, RiskIds, << >>))

calculate_scenario_risk_profile(scenario_id) ==
  LET Return(results) ==
        IF results.exc # "none" THEN results
        ELSE Ok([scenario_id |-> scenario_id,
                 factor_scores |-> get_scenario_profile(scenario_id),
                 risks |-> results.val])
  IN IF scenario_id \notin ScenarioIds THEN ReturnNone
     ELSE Return(RiskProfileLoop(scenario_id, RiskIds, << >>))

----
(* goal_impacts.py *)

\* iteration order of GOALS.items()
GoalIds == <<"G1", "G2", "G3", "G4", "G5", "G6", "G7", "G8", "G9", "G10">>

GoalIdSet == {GoalIds[i] : i \in DOMAIN GoalIds}

\* RISK_GOAL_IMPACTS has the keys of RISK_PROFILES, in the same order
ImpactRiskIdSet == RiskIdSet

GOALS ==
  [gid \in GoalIdSet |->
    CASE gid = "G1" -> [goal_id |-> "G1", name_en |-> "Infrastructure Speed", unit |-> "months", baseline |-> 36, direction |-> "lower_better"]
      [] gid = "G2" -> [goal_id |-> "G2", name_en |-> "Construction Speed", unit |-> "months", baseline |-> 60, direction |-> "lower_better"]
      [] gid = "G3" -> [goal_id |-> "G3", name_en |-> "Affordability", unit |-> "pct_points", baseline |-> 0, direction |-> "lower_better"]
      [] gid = "G4" -> [goal_id |-> "G4", name_en |-> "City Financial Outcome", unit |-> "misk", baseline |-> 0, direction |-> "lower_better"]
      [] gid = "G5" -> [goal_id |-> "G5", name_en |-> "Completion Probability", unit |-> "pct_points", baseline |-> 100, direction |-> "higher_better"]
      [] gid = "G6" -> [goal_id |-> "G6", name_en |-> "Infrastructure Budget Adherence", unit |-> "pct_points", baseline |-> 100, direction |-> "higher_better"]
      [] gid = "G7" -> [goal_id |-> "G7", name_en |-> "Infrastructure Quality", unit |-> "score", baseline |-> 100, direction |-> "higher_better"]
      [] gid = "G8" -> [goal_id |-> "G8", name_en |-> "Construction Quality", unit |-> "score", baseline |-> 100, direction |-> "higher_better"]
      [] gid = "G9" -> [goal_id |-> "G9", name_en |-> "City Control", unit |-> "score", baseline |-> 100, direction |-> "higher_better"]
      [] gid = "G10" -> [goal_id |-> "G10", name_en |-> "Social Mix", unit |-> "pct_points", baseline |-> 30, direction |-> "higher_better"]]

RISK_GOAL_IMPACTS ==
  [rid \in ImpactRiskIdSet |->
    CASE rid = "R01" ->
        <<[risk_id |-> "R01", goal_id |-> "G1", impact_low |-> 3, impact_likely |-> 6, impact_high |-> 12],
          [risk_id |-> "R01", goal_id |-> "G2", impact_low |-> 3, impact_likely |-> 6, impact_high |-> 12],
          [risk_id |-> "R01", goal_id |-> "G4", impact_low |-> 50, impact_likely |-> 150, impact_high |-> 400]>>
      [] rid = "R02" ->
        <<[risk_id |-> "R02", goal_id |-> "G1", impact_low |-> 6, impact_likely |-> 12, impact_high |-> 24],
          [risk_id |-> "R02", goal_id |-> "G2", impact_low |-> 6, impact_likely |-> 12, impact_high |-> 24],
          [risk_id |-> "R02", goal_id |-> "G4", impact_low |-> 100, impact_likely |-> 300, impact_high |-> 800],
          [risk_id |-> "R02", goal_id |-> "G5", impact_low |-> 0 - 5, impact_likely |-> 0 - 15, impact_high |-> 0 - 40],
          [risk_id |-> "R02", goal_id |-> "G9", impact_low |-> 0 - 5, impact_likely |-> 0 - 10, impact_high |-> 0 - 20]>>
      [] rid = "R03" ->
        <<[risk_id |-> "R03", goal_id |-> "G2", impact_low |-> 6, impact_likely |-> 12, impact_high |-> 24],
          [risk_id |-> "R03", goal_id |-> "G3", impact_low |-> 5, impact_likely |-> 12, impact_high |-> 25],
          [risk_id |-> "R03", goal_id |-> "G5", impact_low |-> 0 - 5, impact_likely |-> 0 - 15, impact_high |-> 0 - 30],
          [risk_id |-> "R03", goal_id |-> "G10", impact_low |-> 0 - 5, impact_likely |-> 0 - 10, impact_high |-> 0 - 20]>>
      [] rid = "R04" ->
        <<[risk_id |-> "R04", goal_id |-> "G1", impact_low |-> 3, impact_likely |-> 8, impact_high |-> 18],
          [risk_id |-> "R04", goal_id |-> "G2", impact_low |-> 4, impact_likely |-> 10, impact_high |-> 24],
          [risk_id |-> "R04", goal_id |-> "G3", impact_low |-> 3, impact_likely |-> 8, impact_high |-> 15],
          [risk_id |-> "R04", goal_id |-> "G5", impact_low |-> 0 - 3, impact_likely |-> 0 - 10, impact_high |-> 0 - 25],
          [risk_id |-> "R04", goal_id |-> "G10", impact_low |-> 0 - 3, impact_likely |-> 0 - 8, impact_high |-> 0 - 15]>>
      [] rid = "R05" ->
        <<[risk_id |-> "R05", goal_id |-> "G1", impact_low |-> 2, impact_likely |-> 4, impact_high |-> 9],
          [risk_id |-> "R05", goal_id |-> "G2", impact_low |-> 2, impact_likely |-> 4, impact_high |-> 9]>>
      [] rid = "R06" ->
        <<[risk_id |-> "R06", goal_id |-> "G1", impact_low |-> 2, impact_likely |-> 6, impact_high |-> 18],
          [risk_id |-> "R06", goal_id |-> "G4", impact_low |-> 50, impact_likely |-> 200, impact_high |-> 800]>>
      [] rid = "R08" ->
        <<[risk_id |-> "R08", goal_id |-> "G4", impact_low |-> 500, impact_likely |-> 2000, impact_high |-> 6000],
          [risk_id |-> "R08", goal_id |-> "G6", impact_low |-> 0 - 15, impact_likely |-> 0 - 35, impact_high |-> 0 - 60]>>
      [] rid = "R09" ->
        <<[risk_id |-> "R09", goal_id |-> "G4", impact_low |-> 200, impact_likely |-> 600, impact_high |-> 2000],
          [risk_id |-> "R09", goal_id |-> "G6", impact_low |-> 0 - 5, impact_likely |-> 0 - 10, impact_high |-> 0 - 20],
          [risk_id |-> "R09", goal_id |-> "G7", impact_low |-> 0 - 10, impact_likely |-> 0 - 25, impact_high |-> 0 - 45]>>
      [] rid = "R10" ->
        <<[risk_id |-> "R10", goal_id |-> "G1", impact_low |-> 4, impact_likely |-> 10, impact_high |-> 24],
          [risk_id |-> "R10", goal_id |-> "G2", impact_low |-> 4, impact_likely |-> 10, impact_high |-> 24],
          [risk_id |-> "R10", goal_id |-> "G6", impact_low |-> 0 - 10, impact_likely |-> 0 - 15, impact_high |-> 0 - 25]>>
      [] rid = "R11" ->
        <<[risk_id |-> "R11", goal_id |-> "G2", impact_low |-> 12, impact_likely |-> 24, impact_high |-> 48],
          [risk_id |-> "R11", goal_id |-> "G5", impact_low |-> 0 - 15, impact_likely |-> 0 - 35, impact_high |-> 0 - 70],
          [risk_id |-> "R11", goal_id |-> "G8", impact_low |-> 0 - 10, impact_likely |-> 0 - 20, impact_high |-> 0 - 35],
          [risk_id |-> "R11", goal_id |-> "G10", impact_low |-> 0 - 10, impact_likely |-> 0 - 20, impact_high |-> 0 - 30]>>
      [] rid = "R12" ->
        <<[risk_id |-> "R12", goal_id |-> "G2", impact_low |-> 3, impact_likely |-> 8, impact_high |-> 18],
          [risk_id |-> "R12", goal_id |-> "G3", impact_low |-> 5, impact_likely |-> 12, impact_high |-> 25],
          [risk_id |-> "R12", goal_id |-> "G5", impact_low |-> 0 - 5, impact_likely |-> 0 - 15, impact_high |-> 0 - 35],
          [risk_id |-> "R12", goal_id |-> "G10", impact_low |-> 0 - 5, impact_likely |-> 0 - 12, impact_high |-> 0 - 25]>>
      [] rid = "R13" ->
        <<[risk_id |-> "R13", goal_id |-> "G2", impact_low |-> 6, impact_likely |-> 12, impact_high |-> 30]>>
      [] rid = "R14" ->
        <<[risk_id |-> "R14", goal_id |-> "G8", impact_low |-> 0 - 10, impact_likely |-> 0 - 25, impact_high |-> 0 - 45]>>
      [] rid = "R15" ->
        <<[risk_id |-> "R15", goal_id |-> "G2", impact_low |-> 4, impact_likely |-> 10, impact_high |-> 20],
          [risk_id |-> "R15", goal_id |-> "G8", impact_low |-> 0 - 5, impact_likely |-> 0 - 12, impact_high |-> 0 - 25]>>
      [] rid = "R17" ->
        <<[risk_id |-> "R17", goal_id |-> "G1", impact_low |-> 3, impact_likely |-> 8, impact_high |-> 18],
          [risk_id |-> "R17", goal_id |-> "G2", impact_low |-> 4, impact_likely |-> 10, impact_high |-> 24],
          [risk_id |-> "R17", goal_id |-> "G7", impact_low |-> 0 - 5, impact_likely |-> 0 - 12, impact_high |-> 0 - 25],
          [risk_id |-> "R17", goal_id |-> "G8", impact_low |-> 0 - 5, impact_likely |-> 0 - 12, impact_high |-> 0 - 25]>>
      [] rid = "R18" ->
        <<[risk_id |-> "R18", goal_id |-> "G2", impact_low |-> 12, impact_likely |-> 24, impact_high |-> 48],
          [risk_id |-> "R18", goal_id |-> "G5", impact_low |-> 0 - 10, impact_likely |-> 0 - 25, impact_high |-> 0 - 50]>>
      [] rid = "R19" ->
        <<[risk_id |-> "R19", goal_id |-> "G5", impact_low |-> 0 - 10, impact_likely |-> 0 - 25, impact_high |-> 0 - 50]>>
      [] rid = "R20" ->
        <<[risk_id |-> "R20", goal_id |-> "G2", impact_low |-> 6, impact_likely |-> 12, impact_high |-> 30],
          [risk_id |-> "R20", goal_id |-> "G3", impact_low |-> 5, impact_likely |-> 12, impact_high |-> 25],
          [risk_id |-> "R20", goal_id |-> "G5", impact_low |-> 0 - 8, impact_likely |-> 0 - 20, impact_high |-> 0 - 45]>>
      [] rid = "R22" ->
        <<[risk_id |-> "R22", goal_id |-> "G2", impact_low |-> 12, impact_likely |-> 24, impact_high |-> 48],
          [risk_id |-> "R22", goal_id |-> "G5", impact_low |-> 0 - 15, impact_likely |-> 0 - 35, impact_high |-> 0 - 60]>>
      [] rid = "R23" ->
        <<[risk_id |-> "R23", goal_id |-> "G2", impact_low |-> 12, impact_likely |-> 24, impact_high |-> 36],
          [risk_id |-> "R23", goal_id |-> "G5", impact_low |-> 0 - 10, impact_likely |-> 0 - 25, impact_high |-> 0 - 45],
          [risk_id |-> "R23", goal_id |-> "G9", impact_low |-> 0 - 10, impact_likely |-> 0 - 20, impact_high |-> 0 - 35]>>
      [] rid = "R24" ->
        <<[risk_id |-> "R24", goal_id |-> "G2", impact_low |-> 6, impact_likely |-> 12, impact_high |-> 24],
          [risk_id |-> "R24", goal_id |-> "G5", impact_low |-> 0 - 5, impact_likely |-> 0 - 15, impact_high |-> 0 - 35],
          [risk_id |-> "R24", goal_id |-> "G9", impact_low |-> 0 - 10, impact_likely |-> 0 - 25, impact_high |-> 0 - 45],
          [risk_id |-> "R24", goal_id |-> "G10", impact_low |-> 0 - 5, impact_likely |-> 0 - 15, impact_high |-> 0 - 30]>>
      [] rid = "R25" ->
        <<[risk_id |-> "R25", goal_id |-> "G1", impact_low |-> 2, impact_likely |-> 6, impact_high |-> 15],
          [risk_id |-> "R25", goal_id |-> "G2", impact_low |-> 2, impact_likely |-> 6, impact_high |-> 15]>>
      [] rid = "R26" ->
        <<[risk_id |-> "R26", goal_id |-> "G1", impact_low |-> 3, impact_likely |-> 8, impact_high |-> 18],
          [risk_id |-> "R26", goal_id |-> "G2", impact_low |-> 3, impact_likely |-> 8, impact_high |-> 18],
          [risk_id |-> "R26", goal_id |-> "G5", impact_low |-> 0 - 3, impact_likely |-> 0 - 10, impact_high |-> 0 - 25],
          [risk_id |-> "R26", goal_id |-> "G9", impact_low |-> 0 - 5, impact_likely |-> 0 - 15, impact_high |-> 0 - 30]>>
      [] rid = "R27" ->
        <<[risk_id |-> "R27", goal_id |-> "G1", impact_low |-> 4, impact_likely |-> 10, impact_high |-> 24],
          [risk_id |-> "R27", goal_id |-> "G2", impact_low |-> 6, impact_likely |-> 15, impact_high |-> 36],
          [risk_id |-> "R27", goal_id |-> "G4", impact_low |-> 100, impact_likely |-> 400, impact_high |-> 1200],
          [risk_id |-> "R27", goal_id |-> "G5", impact_low |-> 0 - 5, impact_likely |-> 0 - 15, impact_high |-> 0 - 35],
          [risk_id |-> "R27", goal_id |-> "G9", impact_low |-> 0 - 10, impact_likely |-> 0 - 25, impact_high |-> 0 - 45]>>
      [] rid = "R29" ->
        <<[risk_id |-> "R29", goal_id |-> "G4", impact_low |-> 100, impact_likely |-> 400, impact_high |-> 1500],
          [risk_id |-> "R29", goal_id |-> "G7", impact_low |-> 0 - 5, impact_likely |-> 0 - 15, impact_high |-> 0 - 30],
          [risk_id |-> "R29", goal_id |-> "G8", impact_low |-> 0 - 5, impact_likely |-> 0 - 15, impact_high |-> 0 - 30]>>
      [] rid = "R30" ->
        <<[risk_id |-> "R30", goal_id |-> "G3", impact_low |-> 5, impact_likely |-> 15, impact_high |-> 30],
          [risk_id |-> "R30", goal_id |-> "G4", impact_low |-> 200, impact_likely |-> 800, impact_high |-> 2000],
          [risk_id |-> "R30", goal_id |-> "G9", impact_low |-> 0 - 10, impact_likely |-> 0 - 25, impact_high |-> 0 - 45],
          [risk_id |-> "R30", goal_id |-> "G10", impact_low |-> 0 - 5, impact_likely |-> 0 - 15, impact_high |-> 0 - 30]>>
      [] rid = "R31" ->
        <<[risk_id |-> "R31", goal_id |-> "G1", impact_low |-> 4, impact_likely |-> 10, impact_high |-> 24],
          [risk_id |-> "R31", goal_id |-> "G2", impact_low |-> 6, impact_likely |-> 15, impact_high |-> 36],
          [risk_id |-> "R31", goal_id |-> "G4", impact_low |-> 200, impact_likely |-> 800, impact_high |-> 3000],
          [risk_id |-> "R31", goal_id |-> "G5", impact_low |-> 0 - 5, impact_likely |-> 0 - 15, impact_high |-> 0 - 40]>>
      [] rid = "R32" ->
        <<[risk_id |-> "R32", goal_id |-> "G5", impact_low |-> 0 - 3, impact_likely |-> 0 - 10, impact_high |-> 0 - 20],
          [risk_id |-> "R32", goal_id |-> "G7", impact_low |-> 0 - 5, impact_likely |-> 0 - 12, impact_high |-> 0 - 25],
          [risk_id |-> "R32", goal_id |-> "G9", impact_low |-> 0 - 5, impact_likely |-> 0 - 15, impact_high |-> 0 - 30]>>
      [] rid = "R33" ->
        <<[risk_id |-> "R33", goal_id |-> "G10", impact_low |-> 0 - 5, impact_likely |-> 0 - 15, impact_high |-> 0 - 30]>>
      [] rid = "R34" ->
        <<[risk_id |-> "R34", goal_id |-> "G2", impact_low |-> 2, impact_likely |-> 6, impact_high |-> 14],
          [risk_id |-> "R34", goal_id |-> "G4", impact_low |-> 200, impact_likely |-> 600, impact_high |-> 1500],
          [risk_id |-> "R34", goal_id |-> "G9", impact_low |-> 0 - 5, impact_likely |-> 0 - 10, impact_high |-> 0 - 20]>>
      [] rid = "R35" ->
        <<[risk_id |-> "R35", goal_id |-> "G1", impact_low |-> 2, impact_likely |-> 6, impact_high |-> 12],
          [risk_id |-> "R35", goal_id |-> "G2", impact_low |-> 3, impact_likely |-> 8, impact_high |-> 18],
          [risk_id |-> "R35", goal_id |-> "G5", impact_low |-> 0 - 3, impact_likely |-> 0 - 8, impact_high |-> 0 - 15]>>
      [] rid = "R36" ->
        <<[risk_id |-> "R36", goal_id |-> "G2", impact_low |-> 3, impact_likely |-> 8, impact_high |-> 18],
          [risk_id |-> "R36", goal_id |-> "G4", impact_low |-> 100, impact_likely |-> 400, impact_high |-> 1200],
          [risk_id |-> "R36", goal_id |-> "G5", impact_low |-> 0 - 5, impact_likely |-> 0 - 12, impact_high |-> 0 - 25],
          [risk_id |-> "R36", goal_id |-> "G9", impact_low |-> 0 - 5, impact_likely |-> 0 - 15, impact_high |-> 0 - 30]>>
      [] rid = "R37" ->
        <<[risk_id |-> "R37", goal_id |-> "G1", impact_low |-> 2, impact_likely |-> 5, impact_high |-> 12],
          [risk_id |-> "R37", goal_id |-> "G2", impact_low |-> 2, impact_likely |-> 5, impact_high |-> 12],
          [risk_id |-> "R37", goal_id |-> "G5", impact_low |-> 0 - 3, impact_likely |-> 0 - 8, impact_high |-> 0 - 18],
          [risk_id |-> "R37", goal_id |-> "G9", impact_low |-> 0 - 5, impact_likely |-> 0 - 15, impact_high |-> 0 - 30]>>]

\* a / b rounded toward zero
Quot(a, b) == IF a < 0 THEN -((-a) \div b) ELSE a \div b

\* (low + 4 * likely + high) / 6, in the unit of its arguments
pert_mean(low, likely, high) == Quot(low + 4 * likely + high, 6)

----
(* goal_scoring.py *)
(* Probabilities are in millionths, impacts, baselines and expected values *)
(* in thousandths of the goal's unit, normalizers in millionths, weights in *)
(* halves, weighted contributions and total scores in 1/2000.              *)

\* ScenarioRiskResult.prob_pert_mean
prob_pert_mean(risk) ==
  pert_mean(ValuePPM(risk.prob_low), ValuePPM(risk.prob_likely), ValuePPM(risk.prob_high))

\* risk.prob_pert_mean == 0 for a float: every term is exactly 0.0
ProbIsZero(risk) ==
  risk.prob_low = P_ZERO /\ risk.prob_likely = P_ZERO /\ risk.prob_high = P_ZERO

\* risk_probs: the risks of the profile by id
RiskOf(risks, risk_id) ==
  LET found == SelectSeq(risks, LAMBDA r : r.risk_id = risk_id)
  IN IF found = << >> THEN << >> ELSE <<found[Len(found)]>>

\* the contributions of one risk's impact list to a goal
RECURSIVE ImpactLoop(_, _, _, _)
ImpactLoop(risks, goal_def, impacts, contributions) ==
  LET Contribution(impact, prob, impact_mean) ==
        [risk_id |-> impact.risk_id,
         probability |-> prob,
         impact_if_occurs |-> impact_mean,
         expected_impact |-> MulMicro(prob, impact_mean),
         unit |-> goal_def.unit]
      Impact(impact, risk) ==
        IF impact.goal_id # goal_def.goal_id
           \/ risk = << >> \/ ProbIsZero(risk[1])
        THEN ImpactLoop(risks, goal_def, Tail(impacts), contributions)
        ELSE ImpactLoop(risks, goal_def, Tail(impacts),
                        Append(contributions,
                               Contribution(impact, prob_pert_mean(risk[1]),
                                            pert_mean(impact.impact_low * Milli,
                                                      impact.impact_likely * Milli,
                                                      impact.impact_high * Milli))))
  IN IF impacts = << >> THEN contributions
     ELSE Impact(Head(impacts), RiskOf(risks, Head(impacts).risk_id))

\* for risk_id, impacts in RISK_GOAL_IMPACTS.items(): for impact in impacts
RECURSIVE ContributionLoop(_, _, _, _)
ContributionLoop(risks, goal_def, risk_ids, contributions) ==
  IF risk_ids = << >> THEN contributions
  ELSE ContributionLoop(risks, goal_def, Tail(risk_ids),
                        ImpactLoop(risks, goal_def, RISK_GOAL_IMPACTS[Head(risk_ids)],
                                   contributions))

RECURSIVE TotalImpact(_)
TotalImpact(contributions) ==
  IF contributions = << >> THEN 0
  ELSE Head(contributions).expected_impact + TotalImpact(Tail(contributions))

\* the baseline of a goal: G9 reads scenario.F6 and scenario.F7
GoalBaseline(scenario_id, goal_def) ==
  IF goal_def.goal_id = "G9" /\ scenario_id \in ScenarioIds
  THEN LET F6 == get_factor(SCENARIO_FACTORS[scenario_id], "F6")
           F7 == get_factor(SCENARIO_FACTORS[scenario_id], "F7")
       IN IF F6.exc # "none" THEN F6
          ELSE IF F7.exc # "none" THEN F7
          ELSE Ok(40 * Milli + 8 * Milli * (F6.val - 1) + 7 * Milli * (F7.val - 1))
  ELSE Ok(goal_def.baseline * Milli)

\* the body of the loop over GOALS.items(): one GoalScore
GoalScoreOf(scenario_id, risks, goal_def) ==
  LET Score(contributions, total_impact, baseline) ==
        IF baseline.exc # "none" THEN baseline
        ELSE Ok([goal_id |-> goal_def.goal_id,
                 unit |-> goal_def.unit,
                 baseline |-> baseline.val,
                 expected_impact |-> total_impact,
                 expected_value |-> baseline.val + total_impact,
                 risk_contributions |-> contributions])
      Total(contributions) ==
        Score(contributions, TotalImpact(contributions), GoalBaseline(scenario_id, goal_def))
  IN Total(ContributionLoop(risks, goal_def, RiskIds, << >>))

\* the goals are scored in the order of GOALS; the first exception ends the call
RECURSIVE GoalLoop(_, _, _, _)
GoalLoop(scenario_id, risks, goal_ids, goal_scores) ==
  LET Step(score) ==
        IF score.exc # "none" THEN score
        ELSE GoalLoop(scenario_id, risks, Tail(goal_ids), Append(goal_scores, score.val))
  IN IF goal_ids = << >> THEN Ok(goal_scores)
     ELSE Step(GoalScoreOf(scenario_id, risks, GOALS[Head(goal_ids)]))

\* goal_scores is returned as the sequence of GoalScore in the order of GOALS
calculate_scenario_goal_profile(scenario_id) ==
  LET Return(goal_scores) ==
        IF goal_scores.exc # "none" THEN goal_scores
        ELSE Ok([scenario_id |-> scenario_id, goal_scores |-> goal_scores.val])
      Score(risk_profile) ==
        IF risk_profile.exc # "none" THEN risk_profile
        ELSE IF risk_profile.absent THEN ReturnNone
        ELSE Return(GoalLoop(scenario_id, risk_profile.val.risks, GoalIds, << >>))
  IN Score(calculate_scenario_risk_profile(scenario_id))

\* NORMALIZERS, in millionths
NORMALIZERS ==
  [G1 |-> 23171, G2 |-> 6498, G3 |-> 22491, G4 |-> 225, G5 |-> 0 - 5898,
   G6 |-> 0 - 25075, G7 |-> 0 - 23433, G8 |-> 0 - 14442, G9 |-> 0 - 9893,
   G10 |-> 0 - 15430]

\* profile.goal_scores.get(goal_id)
GoalScoreGet(goal_scores, goal_id) ==
  SelectSeq(goal_scores, LAMBDA gs : gs.goal_id = goal_id)

\* weights is the sequence of the items [goal_id, weight] of the dict
RECURSIVE WeightLoop(_, _, _, _)
WeightLoop(goal_scores, weights, normalize, contributions) ==
  LET Contribution(goal_id, weight, normalized_impact) ==
        [goal_id |-> goal_id, contribution |-> Abs(normalized_impact) * weight]
      Normalize(goal_id, weight, impact) ==
        Contribution(goal_id, weight,
                     IF normalize
                     THEN (IF NORMALIZERS[goal_id] < 0
                           THEN -MulMicro(-NORMALIZERS[goal_id], impact)
                           ELSE MulMicro(NORMALIZERS[goal_id], impact))
                     ELSE impact)
      Weigh(goal_id, weight, goal_score) ==
        IF goal_score = << >>
        THEN WeightLoop(goal_scores, Tail(weights), normalize, contributions)
        ELSE WeightLoop(goal_scores, Tail(weights), normalize,
               Append(contributions,
                      Normalize(goal_id, weight,
                                IF goal_id = "G9"
                                THEN goal_score[1].expected_impact
                                     + (goal_score[1].baseline - 100 * Milli)
                                ELSE goal_score[1].expected_impact)))
  IN IF weights = << >> THEN contributions
     ELSE Weigh(Head(weights).goal_id, Head(weights).weight,
                GoalScoreGet(goal_scores, Head(weights).goal_id))

RECURSIVE TotalScore(_)
TotalScore(contributions) ==
  IF contributions = << >> THEN 0
  ELSE Head(contributions).contribution + TotalScore(Tail(contributions))

calculate_weighted_score(scenario_id, weights, normalize) ==
  LET Return(contributions) ==
        Ok([scenario_id |-> scenario_id,
            total_score |-> TotalScore(contributions),
            goal_contributions |-> contributions,
            rank |-> 0])
      Weigh(profile) ==
        IF profile.exc # "none" THEN profile
        ELSE IF profile.absent THEN ReturnNone
        ELSE Return(WeightLoop(profile.val.goal_scores, weights, normalize, << >>))
  IN Weigh(calculate_scenario_goal_profile(scenario_id))

\* scores.sort(key=lambda x: x.total_score): a stable insertion sort
RECURSIVE InsertScore(_, _)
InsertScore(sorted, score) ==
  IF sorted = << >> THEN <<score>>
  ELSE IF sorted[Len(sorted)].total_score <= score.total_score THEN Append(sorted, score)
  ELSE Append(InsertScore(SubSeq(sorted, 1, Len(sorted) - 1), score), sorted[Len(sorted)])

RECURSIVE SortScores(_, _)
SortScores(scores, sorted) ==
  IF scores = << >> THEN sorted
  ELSE SortScores(Tail(scores), InsertScore(sorted, Head(scores)))

\* for sid in scenario_ids: score = calculate_weighted_score(sid, weights)
RECURSIVE ScoreLoop(_, _, _)
ScoreLoop(weights, scenario_ids, scores) ==
  LET Step(score) ==
        IF score.exc # "none" THEN score
        ELSE IF score.absent THEN ScoreLoop(weights, Tail(scenario_ids), scores)
        ELSE ScoreLoop(weights, Tail(scenario_ids), Append(scores, score.val))
  IN IF scenario_ids = << >> THEN Ok(scores)
     ELSE Step(calculate_weighted_score(Head(scenario_ids), weights, TRUE))

\* the optional argument scenario_ids: not given (None) or a list
NoIds == [given |-> FALSE, ids |-> << >>]

Ids(ids) == [given |-> TRUE, ids |-> ids]

rank_scenarios(weights, scenario_ids) ==
  LET Ranked(sorted) == Ok([i \in DOMAIN sorted |-> [sorted[i] EXCEPT !.rank = i]])
      Sort(scores) ==
        IF scores.exc # "none" THEN scores
        ELSE Ranked(SortScores(scores.val, << >>))
  IN Sort(ScoreLoop(weights,
                    IF scenario_ids.given THEN scenario_ids.ids ELSE ScenarioIdSeq,
                    << >>))

\* WEIGHTS_BALANCED
WEIGHTS_BALANCED == [i \in DOMAIN GoalIds |-> [goal_id |-> GoalIds[i], weight |-> 2]]

----
(* app.py: the goal ranking of the dashboard *)

\* SCENARIO_IDS = sorted(SCENARIO_FACTORS.keys(), key=lambda x: int(x[1:]))
SCENARIO_IDS == ScenarioIdSeq

\* GOAL_IDS = list(GOALS.keys())
GOAL_IDS == GoalIds

\* the value the ordinal scores are counted down from: 12 - rank_0
RANK_TOP == 12

\* Step 1: raw[(sid, gid)] = profile.goal_scores[gid].expected_value, kept as
\* one entry per scenario with the expected values in the order of GOAL_IDS;
\* a profile of None has no goal_scores
RECURSIVE RawLoop(_, _)
RawLoop(scenario_ids, raw) ==
  LET Step(sid, profile) ==
        IF profile.exc # "none" THEN profile
        ELSE IF profile.absent THEN Raise("AttributeError")
        ELSE RawLoop(Tail(scenario_ids),
                     Append(raw,
                            [scenario_id |-> sid,
                             expected_values |->
                               [g \in DOMAIN profile.val.goal_scores |->
                                  profile.val.goal_scores[g].expected_value]]))
  IN IF scenario_ids = << >> THEN Ok(raw)
     ELSE Step(Head(scenario_ids), calculate_scenario_goal_profile(Head(scenario_ids)))

\* vals.sort(key=lambda x: x[1]) and vals.sort(key=..., reverse=True): stable
RECURSIVE InsertVal(_, _, _)
InsertVal(sorted, val, reverse) ==
  IF sorted = << >> THEN <<val>>
  ELSE IF (IF reverse THEN sorted[Len(sorted)].value >= val.value
           ELSE sorted[Len(sorted)].value <= val.value)
       THEN Append(sorted, val)
  ELSE Append(InsertVal(SubSeq(sorted, 1, Len(sorted) - 1), val, reverse),
              sorted[Len(sorted)])

RECURSIVE SortVals(_, _, _)
SortVals(vals, sorted, reverse) ==
  IF vals = << >> THEN sorted
  ELSE SortVals(Tail(vals), InsertVal(sorted, Head(vals), reverse), reverse)

\* Step 2 for the goal GOAL_IDS[g]: rankings[(sid, gid)] = 12 - rank_0
GoalRanking(raw, g) ==
  LET Rank(vals) ==
        [i \in DOMAIN vals |-> [scenario_id |-> vals[i].scenario_id,
                                goal_id |-> GOAL_IDS[g],
                                score |-> RANK_TOP - (i - 1)]]
  IN Rank(SortVals([s \in DOMAIN raw |-> [scenario_id |-> raw[s].scenario_id,
                                          value |-> raw[s].expected_values[g]]],
                   << >>,
                   GOALS[GOAL_IDS[g]].direction = "higher_better"))

\* rankings is returned as one sequence of (sid, gid, score) per goal
compute_goal_rankings ==
  LET Rankings(raw) ==
        IF raw.exc # "none" THEN raw
        ELSE Ok([g \in DOMAIN GOAL_IDS |-> GoalRanking(raw.val, g)])
  IN Rankings(RawLoop(SCENARIO_IDS, << >>))

----
(* deep_audit.py: the catalog checks of sections 1, 2 and 3, one risk, one *)
(* goal, one impact record or one (scenario, factor) pair at a time        *)

\* the factors section 1.1 reads from every scenario
AUDIT_FACTOR_IDS == <<"F1", "F2", "F3", "F4", "F5", "F6", "F7">>

\* 1.1: val = sf.get_factor(fid); the check 1 <= val <= 5
audit_factor_range(scenario_id, factor_id) ==
  LET Check(val) ==
        IF val.exc # "none" THEN val
        ELSE Ok([val |-> val.val, in_range |-> (1 <= val.val /\ val.val <= 5)])
  IN Check(get_factor(SCENARIO_FACTORS[scenario_id], factor_id))

\* 2.3: the factor ids of the sensitivities that are not in STRUCTURAL_FACTORS
audit_sensitivity_references(risk_id) ==
  LET unknown == SelectSeq(RISK_PROFILES[risk_id].sensitivities,
                           LAMBDA sens : sens.factor_id \notin DOMAIN STRUCTURAL_FACTORS)
  IN Ok([i \in DOMAIN unknown |-> unknown[i].factor_id])

\* factor_ids by the direction of the sensitivity where the code has its factor_id
factor_ids_by_direction(sensitivities) ==
  [i \in DOMAIN sensitivities |-> sensitivities[i].direction]

\* 2.4: factor_ids = [s.factor_id for s in rp.sensitivities]
factor_ids(sensitivities) ==
  [i \in DOMAIN sensitivities |-> sensitivities[i].factor_id]

\* 2.4: dups = [f for f in factor_ids if factor_ids.count(f) > 1] when
\* len(factor_ids) != len(set(factor_ids)), no finding otherwise
audit_duplicate_sensitivities(risk_id) ==
  LET Dups(ids) ==
        IF Len(ids) # Cardinality({ids[i] : i \in DOMAIN ids})
        THEN Ok(SelectSeq(ids, LAMBDA f : Cardinality({i \in DOMAIN ids : ids[i] = f}) > 1))
        ELSE Ok(<< >>)
  IN Dups(factor_ids(RISK_PROFILES[risk_id].sensitivities))

\* 2.5: the finding for every gate of requires_factors
audit_requires_factors(risk_id) ==
  Ok([i \in DOMAIN RISK_PROFILES[risk_id].requires_factors |->
        LET gate == RISK_PROFILES[risk_id].requires_factors[i]
        IN [factor_id |-> gate.factor_id,
            finding |-> IF gate.factor_id \notin DOMAIN STRUCTURAL_FACTORS THEN "unknown"
                        ELSE IF gate.min_val > gate.max_val THEN "lo > hi"
                        ELSE IF gate.min_val < 1 \/ gate.max_val > 5 THEN "outside 1-5"
                        ELSE "valid"]])

\* 2.1 with the comparisons the other way round (low >= likely >= high)
audit_probability_ordering_descending(risk_id) ==
  LET Check(rp) ==
        IF ~(rp.base_prob_low >= rp.base_prob_likely /\ rp.base_prob_likely >= rp.base_prob_high)
        THEN Ok("ordering violated")
        ELSE IF rp.base_prob_low = rp.base_prob_likely \/ rp.base_prob_likely = rp.base_prob_high
        THEN Ok("degenerate range")
        ELSE Ok("ordering OK")
  IN Check(RISK_PROFILES[risk_id])

\* 2.1: fail unless low <= likely <= high, warn when two of them are equal
audit_probability_ordering(risk_id) ==
  LET Check(rp) ==
        IF ~(rp.base_prob_low <= rp.base_prob_likely /\ rp.base_prob_likely <= rp.base_prob_high)
        THEN Ok("ordering violated")
        ELSE IF rp.base_prob_low = rp.base_prob_likely \/ rp.base_prob_likely = rp.base_prob_high
        THEN Ok("degenerate range")
        ELSE Ok("ordering OK")
  IN Check(RISK_PROFILES[risk_id])

\* 2.2: for low, likely and high in turn, fail when val <= 0 or val >= 1
\* (probabilities in thousandths)
audit_probability_bounds(risk_id) ==
  LET Check(fields) ==
        Ok([i \in DOMAIN fields |->
              [field |-> fields[i].field,
               finding |-> IF fields[i].val <= 0 \/ fields[i].val >= Milli
                           THEN "outside (0,1)" ELSE "OK"]])
  IN Check(<<[field |-> "low", val |-> RISK_PROFILES[risk_id].base_prob_low],
             [field |-> "likely", val |-> RISK_PROFILES[risk_id].base_prob_likely],
             [field |-> "high", val |-> RISK_PROFILES[risk_id].base_prob_high]>>)

\* the goal id of the first impact record only
impact_goal_ids_first(impacts) ==
  {impacts[i].goal_id : i \in DOMAIN impacts \cap {1}}

\* 2.7: {imp.goal_id for imp in RISK_GOAL_IMPACTS[rid]}
impact_goal_ids(impacts) ==
  {impacts[i].goal_id : i \in DOMAIN impacts}

\* 2.7: declared = set(rp.affected_goals), actual = the goal ids of the impact
\* records of the risk (empty when the risk has none); the two differences
audit_goal_consistency(risk_id) ==
  LET Compare(declared, actual) ==
        Ok([missing_impacts |-> declared \ actual,
            extra_impacts |-> actual \ declared])
  IN Compare({RISK_PROFILES[risk_id].affected_goals[i] :
                i \in DOMAIN RISK_PROFILES[risk_id].affected_goals},
             IF risk_id \in DOMAIN RISK_GOAL_IMPACTS
             THEN impact_goal_ids(RISK_GOAL_IMPACTS[risk_id]) ELSE {})

\* 3.1: the finding for one impact record
audit_impact_ordering(imp) ==
  IF imp.impact_low >= 0 /\ imp.impact_likely >= 0 /\ imp.impact_high >= 0
  THEN IF ~(imp.impact_low <= imp.impact_likely /\ imp.impact_likely <= imp.impact_high)
       THEN Ok("positive impacts not ordered") ELSE Ok("positive ordering OK")
  ELSE IF imp.impact_low <= 0 /\ imp.impact_likely <= 0 /\ imp.impact_high <= 0
  THEN IF ~(imp.impact_low >= imp.impact_likely /\ imp.impact_likely >= imp.impact_high)
       THEN Ok("negative impacts not ordered") ELSE Ok("negative ordering OK")
  ELSE Ok("mixed signs")

\* 3.2 with the test of the direction for higher_better in place of lower_better
audit_impact_sign_swapped(imp) ==
  IF imp.goal_id \notin DOMAIN GOALS THEN Ok("goal not found")
  ELSE IF GOALS[imp.goal_id].direction = "higher_better"
  THEN IF imp.impact_likely < 0 THEN Ok("lower_better goal but negative impact")
       ELSE Ok("sign OK")
  ELSE IF imp.impact_likely > 0 THEN Ok("higher_better goal but positive impact")
       ELSE Ok("sign OK")

\* 3.2: the sign of impact_likely against the direction of the goal
audit_impact_sign(imp) ==
  IF imp.goal_id \notin DOMAIN GOALS THEN Ok("goal not found")
  ELSE IF GOALS[imp.goal_id].direction = "lower_better"
  THEN IF imp.impact_likely < 0 THEN Ok("lower_better goal but negative impact")
       ELSE Ok("sign OK")
  ELSE IF imp.impact_likely > 0 THEN Ok("higher_better goal but positive impact")
       ELSE Ok("sign OK")

\* 3.1 and 3.2 on the impact record at position i of RISK_GOAL_IMPACTS[risk_id]
audit_impact_record(risk_id, i) ==
  LET Both(ordering, sign) ==
        Ok([ordering |-> ordering.val, sign |-> sign.val])
  IN Both(audit_impact_ordering(RISK_GOAL_IMPACTS[risk_id][i]),
          audit_impact_sign(RISK_GOAL_IMPACTS[risk_id][i]))

\* the impact records of the first risk of the catalog only
goal_risk_count_first_risk(goal_id) ==
  Cardinality({i \in DOMAIN RISK_GOAL_IMPACTS[RiskIds[1]] :
                 RISK_GOAL_IMPACTS[RiskIds[1]][i].goal_id = goal_id})

\* 3.3: goal_risk_count[imp.goal_id] += 1 over every impact record of every risk
goal_risk_count(goal_id) ==
  Cardinality({pair \in UNION {{<<rid, i>> : i \in DOMAIN RISK_GOAL_IMPACTS[rid]} :
                                 rid \in DOMAIN RISK_GOAL_IMPACTS} :
                 RISK_GOAL_IMPACTS[pair[1]][pair[2]].goal_id = goal_id})

\* 3.3: fail on no record, warn on one, ok on two or more
audit_goal_coverage(goal_id) ==
  LET Check(count) ==
        Ok([count |-> count,
            finding |-> IF count = 0 THEN "NO risks affect this goal"
                        ELSE IF count = 1 THEN "only 1 risk contributes"
                        ELSE "contributing risks"])
  IN Check(goal_risk_count(goal_id))


----
(* Inputs of the calls *)

\* number of effects in the extreme lists ([100.0] * 10, [0.001] * 10)
ExtremeLen == 10

\* ids that are in no catalog
UnknownScenarioIds == {"S0", "S12"}

UnknownRiskIds == {"R07", "R99"}

ScenarioInputs == ScenarioIds \cup UnknownScenarioIds

RiskInputs == RiskIdSet \cup UnknownRiskIds

\* longest scenario_ids list handed to rank_scenarios
MaxIds == 2

\* the ids such a list is made of: two catalog scenarios and the unknown ids
RankIdPool == {"S1", "S9"} \cup UnknownScenarioIds

IdListInputs ==
  {NoIds} \cup {Ids(ids) : ids \in UNION {[1..n -> RankIdPool] : n \in 0..MaxIds}}

\* weight maps: balanced, empty, one goal, and one naming an unknown goal
WeightInputs ==
  {WEIGHTS_BALANCED,
   << >>,
   <<[goal_id |-> "G9", weight |-> 4]>>,
   <<[goal_id |-> "G1", weight |-> 1], [goal_id |-> "G11", weight |-> 3]>>}

\* factor scores handed to calculate_factor_effect: 1..5 and the two
\* neighbours outside the scale
FactorScores == 0..6

\* the effects calculate_factor_effect yields on the scale 1..5
FactorEffects ==
  {calculate_factor_effect(score, direction, sensitivity).val :
     score \in 1..5, direction \in FactorDirection, sensitivity \in DOMAIN Sensitivity}

\* the effect lists of the catalog: one per scenario and risk whose
\* sensitivities all name a factor the scenario scores
CatalogEffectLists ==
  {EffectsLoop(SCENARIO_FACTORS[sid], RISK_PROFILES[rid].sensitivities, << >>, << >>).val.effects :
     <<sid, rid>> \in {pair \in ScenarioIds \X RiskIdSet :
        \A i \in DOMAIN RISK_PROFILES[pair[2]].sensitivities :
           RISK_PROFILES[pair[2]].sensitivities[i].factor_id \in DOMAIN SCENARIO_FACTORS[pair[1]]}}

\* extreme lists: many huge or tiny effects, 0.0, a negative effect, 1e180
ExtremeEffectLists ==
  {[i \in 1..ExtremeLen |-> Eff(100, 1, 2)],
   [i \in 1..ExtremeLen |-> Eff(1, 1000, 2)],
   [i \in 1..ExtremeLen |-> Eff(1, 2000, 2)],
   <<Eff(0, 1, 2)>>,
   <<Eff(-1, 1, 2), Eff(5, 3, 4)>>,
   <<Eff(10, 1, 360)>>,
   <<Eff(10, 1, 360), Eff(10, 1, 360)>>,
   <<Eff(10, 1, 360), Eff(1, 1000, 2)>>}

EffectListInputs ==
  {<< >>} \cup {<<e>> : e \in FactorEffects} \cup CatalogEffectLists \cup ExtremeEffectLists

\* base probabilities of the catalog, in thousandths
CatalogBaseProbs ==
  UNION {{RISK_PROFILES[rid].base_prob_low, RISK_PROFILES[rid].base_prob_likely,
          RISK_PROFILES[rid].base_prob_high} : rid \in RiskIdSet}

\* the probabilities the identity check uses, the clamp bounds and values
\* outside [0, 1]
ProbeBaseProbs == {10, 100, 250, 500, 750, 900, 990} \cup {0, 1, 999, 1000, 0 - 500, 1500}

\* every base probability 0.000 .. 1.000 with no effects, the catalog and
\* probe probabilities with every effect list
LogisticInputs ==
  ((0..Milli) \X {<< >>}) \cup ((CatalogBaseProbs \cup ProbeBaseProbs) \X EffectListInputs)

----
(* The calls *)

\* The caller (dashboard, audit) makes one call at a time: it is idle, calls
\* an operation and holds its result, then drops it and is idle again.
Idle == [op |-> "idle"]

Init ==
  /\ call = Idle
  /\ result = ReturnNone

CallFactorEffect ==
  /\ call = Idle
  /\ \E factor_score \in FactorScores, direction \in FactorDirection,
     sensitivity \in DOMAIN Sensitivity :
    /\ call' = [op |-> "calculate_factor_effect", factor_score |-> factor_score,
                direction |-> direction, sensitivity |-> sensitivity]
    /\ result' = calculate_factor_effect(factor_score, direction, sensitivity)

CallLogisticTransform ==
  /\ call = Idle
  /\ \E input \in LogisticInputs :
    /\ call' = [op |-> "_logistic_transform", base_prob |-> input[1],
                factor_effects |-> input[2]]
    /\ result' = _logistic_transform(input[1], input[2])

CallScenarioModifier ==
  /\ call = Idle
  /\ \E scenario_id \in ScenarioInputs, risk_id \in RiskIdSet :
    /\ call' = [op |-> "calculate_scenario_modifier", scenario_id |-> scenario_id,
                risk_id |-> risk_id]
    /\ result' = calculate_scenario_modifier(scenario_id, risk_id)

CallAdjustedProbability ==
  /\ call = Idle
  /\ \E scenario_id \in ScenarioInputs, risk_id \in RiskInputs :
    /\ call' = [op |-> "calculate_adjusted_probability", scenario_id |-> scenario_id,
                risk_id |-> risk_id]
    /\ result' = calculate_adjusted_probability(scenario_id, risk_id)

CallScenarioRiskProfile ==
  /\ call = Idle
  /\ \E scenario_id \in ScenarioInputs :
    /\ call' = [op |-> "calculate_scenario_risk_profile", scenario_id |-> scenario_id]
    /\ result' = calculate_scenario_risk_profile(scenario_id)

CallGetScenarioProfile ==
  /\ call = Idle
  /\ \E scenario_id \in ScenarioInputs :
    /\ call' = [op |-> "get_scenario_profile", scenario_id |-> scenario_id]
    /\ result' = Ok(get_scenario_profile(scenario_id))

CallScenarioGoalProfile ==
  /\ call = Idle
  /\ \E scenario_id \in ScenarioInputs :
    /\ call' = [op |-> "calculate_scenario_goal_profile", scenario_id |-> scenario_id]
    /\ result' = calculate_scenario_goal_profile(scenario_id)

CallWeightedScore ==
  /\ call = Idle
  /\ \E scenario_id \in ScenarioInputs, weights \in WeightInputs, normalize \in BOOLEAN :
    /\ call' = [op |-> "calculate_weighted_score", scenario_id |-> scenario_id,
                weights |-> weights, normalize |-> normalize]
    /\ result' = calculate_weighted_score(scenario_id, weights, normalize)

CallRankScenarios ==
  /\ call = Idle
  /\ \E weights \in WeightInputs, scenario_ids \in IdListInputs :
    /\ call' = [op |-> "rank_scenarios", weights |-> weights, scenario_ids |-> scenario_ids]
    /\ result' = rank_scenarios(weights, scenario_ids)

CallComputeGoalRankings ==
  /\ call = Idle
  /\ call' = [op |-> "compute_goal_rankings"]
  /\ result' = compute_goal_rankings

CallGetFactor ==
  /\ call = Idle
  /\ \E scenario_id \in ScenarioIds, i \in DOMAIN AUDIT_FACTOR_IDS :
    /\ call' = [op |-> "get_factor", scenario_id |-> scenario_id,
                factor_id |-> AUDIT_FACTOR_IDS[i]]
    /\ result' = get_factor(SCENARIO_FACTORS[scenario_id], AUDIT_FACTOR_IDS[i])

AuditFactorRange ==
  /\ call = Idle
  /\ \E scenario_id \in ScenarioIds, i \in DOMAIN AUDIT_FACTOR_IDS :
    /\ call' = [op |-> "audit_factor_range", scenario_id |-> scenario_id,
                factor_id |-> AUDIT_FACTOR_IDS[i]]
    /\ result' = audit_factor_range(scenario_id, AUDIT_FACTOR_IDS[i])

AuditSensitivityReferences ==
  /\ call = Idle
  /\ \E risk_id \in RiskIdSet :
    /\ call' = [op |-> "audit_sensitivity_references", risk_id |-> risk_id]
    /\ result' = audit_sensitivity_references(risk_id)

AuditDuplicateSensitivities ==
  /\ call = Idle
  /\ \E risk_id \in RiskIdSet :
    /\ call' = [op |-> "audit_duplicate_sensitivities", risk_id |-> risk_id]
    /\ result' = audit_duplicate_sensitivities(risk_id)

AuditRequiresFactors ==
  /\ call = Idle
  /\ \E risk_id \in RiskIdSet :
    /\ call' = [op |-> "audit_requires_factors", risk_id |-> risk_id]
    /\ result' = audit_requires_factors(risk_id)

AuditProbabilityOrdering ==
  /\ call = Idle
  /\ \E risk_id \in RiskIdSet :
    /\ call' = [op |-> "audit_probability_ordering", risk_id |-> risk_id]
    /\ result' = audit_probability_ordering(risk_id)

AuditProbabilityBounds ==
  /\ call = Idle
  /\ \E risk_id \in RiskIdSet :
    /\ call' = [op |-> "audit_probability_bounds", risk_id |-> risk_id]
    /\ result' = audit_probability_bounds(risk_id)

AuditGoalConsistency ==
  /\ call = Idle
  /\ \E risk_id \in RiskIdSet :
    /\ call' = [op |-> "audit_goal_consistency", risk_id |-> risk_id]
    /\ result' = audit_goal_consistency(risk_id)

AuditImpactRecord ==
  /\ call = Idle
  /\ \E risk_id \in DOMAIN RISK_GOAL_IMPACTS :
      \E i \in DOMAIN RISK_GOAL_IMPACTS[risk_id] :
        /\ call' = [op |-> "audit_impact_record", risk_id |-> risk_id, index |-> i]
        /\ result' = audit_impact_record(risk_id, i)

AuditGoalCoverage ==
  /\ call = Idle
  /\ \E i \in DOMAIN GoalIds :
    /\ call' = [op |-> "audit_goal_coverage", goal_id |-> GoalIds[i]]
    /\ result' = audit_goal_coverage(GoalIds[i])

NextRequest ==
  /\ call # Idle
  /\ call' = Idle
  /\ result' = ReturnNone

Next ==
  \/ CallFactorEffect
  \/ CallLogisticTransform
  \/ CallScenarioModifier
  \/ CallAdjustedProbability
  \/ CallScenarioRiskProfile
  \/ CallGetScenarioProfile
  \/ CallScenarioGoalProfile
  \/ CallWeightedScore
  \/ CallRankScenarios
  \/ CallComputeGoalRankings
  \/ CallGetFactor
  \/ AuditFactorRange
  \/ AuditSensitivityReferences
  \/ AuditDuplicateSensitivities
  \/ AuditRequiresFactors
  \/ AuditProbabilityOrdering
  \/ AuditProbabilityBounds
  \/ AuditGoalConsistency
  \/ AuditImpactRecord
  \/ AuditGoalCoverage
  \/ NextRequest

Spec == Init /\ [][Next]_vars

----
(* Catalog facts the properties are stated with *)

CatalogCall(op) ==
  /\ call.op = op
  /\ call.scenario_id \in ScenarioIds
  /\ call.risk_id \in RiskIdSet

\* every requires_factors range of the risk holds the scenario's score
\* (a risk with no requires_factors is applicable everywhere)
Applicable(scenario_id, risk_id) ==
  \A i \in DOMAIN RISK_PROFILES[risk_id].requires_factors :
    LET gate == RISK_PROFILES[risk_id].requires_factors[i]
    IN /\ gate.factor_id \in DOMAIN SCENARIO_FACTORS[scenario_id]
       /\ gate.min_val <= SCENARIO_FACTORS[scenario_id][gate.factor_id]
       /\ SCENARIO_FACTORS[scenario_id][gate.factor_id] <= gate.max_val

\* |p - base_prob| <= 1e-3, p a float probability, base_prob in thousandths
WithinMilli(p, base_prob) == Abs(ValuePPM(p) - base_prob * Milli) <= Milli

----
(* Properties *)

\* C1: for every catalog scenario and every catalog risk,
\* calculate_adjusted_probability returns without raising, and so do
\* calculate_scenario_risk_profile and calculate_scenario_goal_profile for
\* every catalog scenario and rank_scenarios: no call raises.
C1_CatalogCallsNeverRaise ==
  /\ CatalogCall("calculate_adjusted_probability") => Returned(result)
  /\ (call.op \in {"calculate_scenario_risk_profile", "calculate_scenario_goal_profile"}
        /\ call.scenario_id \in ScenarioIds)
     => Returned(result)
  /\ call.op = "rank_scenarios" => Returned(result)

\* C2: for a catalog scenario and a risk that declares requires_factors, a
\* gating score outside its range makes calculate_adjusted_probability return
\* [0, 0, 0], modifier 0 and the non-applicability marker; with every gating
\* score inside its range it returns three strictly positive probabilities.
C2_GateDecidesProbabilities ==
  (CatalogCall("calculate_adjusted_probability")
     /\ RISK_PROFILES[call.risk_id].requires_factors # << >>)
  => /\ Returned(result)
     /\ IF Applicable(call.scenario_id, call.risk_id)
        THEN \A i \in 1..3 : result.val.adjusted_prob[i] > P_ZERO
        ELSE /\ result.val.adjusted_prob = <<P_ZERO, P_ZERO, P_ZERO>>
             /\ result.val.modifier = EFF_ZERO
             /\ Len(result.val.breakdown) = 1
             /\ result.val.breakdown[1].text = NOT_APPLICABLE

\* C3: a risk whose gate fails for a catalog scenario is not among the risks
\* of that scenario's calculate_scenario_risk_profile result and has no entry
\* in the risk_contributions of any goal of its calculate_scenario_goal_profile
\* result.
C3_GatedRiskExcluded ==
  /\ (call.op = "calculate_scenario_risk_profile" /\ call.scenario_id \in ScenarioIds)
     => /\ Returned(result)
        /\ \A i \in DOMAIN result.val.risks :
             Applicable(call.scenario_id, result.val.risks[i].risk_id)
  /\ (call.op = "calculate_scenario_goal_profile" /\ call.scenario_id \in ScenarioIds)
     => /\ Returned(result)
        /\ \A g \in DOMAIN result.val.goal_scores :
             \A i \in DOMAIN result.val.goal_scores[g].risk_contributions :
               Applicable(call.scenario_id,
                          result.val.goal_scores[g].risk_contributions[i].risk_id)

C6_OrderingPreserved ==
  (CatalogCall("calculate_adjusted_probability")
     /\ Applicable(call.scenario_id, call.risk_id))
  => /\ Returned(result)
     /\ result.val.adjusted_prob[1] <= result.val.adjusted_prob[2]
     /\ result.val.adjusted_prob[2] <= result.val.adjusted_prob[3]

\* the worse and the better of the scores 2 and 4 for a direction
WorseScore(direction) == IF direction = "PROTECTIVE" THEN 2 ELSE 4

BetterScore(direction) == IF direction = "PROTECTIVE" THEN 4 ELSE 2

\* C7: for every risk, each of its sensitivities and each of its base
\* probabilities, the transformed probability with the factor at its worse
\* score (2 when PROTECTIVE, 4 when EXPOSURE) is at least the transformed
\* probability with the factor at the better score.
C7_WorseFactorNeverLowers ==
  call.op = "_logistic_transform"
  => \A rid \in RiskIdSet : \A i \in DOMAIN RISK_PROFILES[rid].sensitivities :
       LET sens == RISK_PROFILES[rid].sensitivities[i]
           worse == calculate_factor_effect(WorseScore(sens.direction), sens.direction, sens.sensitivity).val
           better == calculate_factor_effect(BetterScore(sens.direction), sens.direction, sens.sensitivity).val
       IN (/\ call.base_prob \in {RISK_PROFILES[rid].base_prob_low,
                                  RISK_PROFILES[rid].base_prob_likely,
                                  RISK_PROFILES[rid].base_prob_high}
           /\ call.factor_effects = <<worse>>)
          => /\ Returned(result)
             /\ result.val.prob >= _logistic_transform(call.base_prob, <<better>>).val.prob

\* C7 witness: R01's likely probability 0.4 with its PROTECTIVE MEDIUM factor
\* at score 2 comes out strictly above the same with the factor at score 4.
C7_Witness ==
  /\ call.op = "_logistic_transform"
  /\ call.base_prob = RISK_PROFILES["R01"].base_prob_likely
  /\ call.factor_effects = <<calculate_factor_effect(2, "PROTECTIVE", "MEDIUM").val>>
  /\ Returned(result)
  /\ result.val.prob >
       _logistic_transform(call.base_prob,
                           <<calculate_factor_effect(4, "PROTECTIVE", "MEDIUM").val>>).val.prob

\* C8: with no effects _logistic_transform returns its base probability to
\* within 1e-3, for every base probability 0.001 .. 0.999; and a catalog risk
\* without sensitivities keeps its three base probabilities (to 1e-3) in
\* every catalog scenario where it applies.
C8_EmptyEffectsIdentity ==
  /\ (call.op = "_logistic_transform" /\ call.factor_effects = << >>
        /\ 1 <= call.base_prob /\ call.base_prob <= 999)
     => /\ Returned(result)
        /\ WithinMilli(result.val.prob, call.base_prob)
  /\ (CatalogCall("calculate_adjusted_probability")
        /\ RISK_PROFILES[call.risk_id].sensitivities = << >>
        /\ Applicable(call.scenario_id, call.risk_id))
     => /\ Returned(result)
        /\ WithinMilli(result.val.adjusted_prob[1], RISK_PROFILES[call.risk_id].base_prob_low)
        /\ WithinMilli(result.val.adjusted_prob[2], RISK_PROFILES[call.risk_id].base_prob_likely)
        /\ WithinMilli(result.val.adjusted_prob[3], RISK_PROFILES[call.risk_id].base_prob_high)

\* C8 witness: R06 (no sensitivities) in S5 comes back as 0.03, 0.10, 0.20.
C8_Witness ==
  /\ call.op = "calculate_adjusted_probability"
  /\ call.scenario_id = "S5"
  /\ call.risk_id = "R06"
  /\ Returned(result)
  /\ WithinMilli(result.val.adjusted_prob[2], 100)
  /\ result.val.breakdown = << >>

\* C9: calculate_factor_effect(3, direction, strength) is exactly 1.0 for both
\* directions and all four strengths.
C9_NeutralScoreIsNoOp ==
  (call.op = "calculate_factor_effect" /\ call.factor_score = 3)
  => /\ Returned(result)
     /\ result.val.n = result.val.d

\* C9 witness: score 3, EXPOSURE, CRITICAL gave 1.0.
C9_Witness ==
  /\ call.op = "calculate_factor_effect"
  /\ call.factor_score = 3
  /\ call.direction = "EXPOSURE"
  /\ call.sensitivity = "CRITICAL"
  /\ Returned(result)
  /\ EffEq(result.val, EFF_ONE)

\* C10: over the scores 1..5 and for every strength the effect strictly
\* decreases with the score when PROTECTIVE and strictly increases when
\* EXPOSURE: the effect at score s compared with the effect at s + 1.
C10_StrictlyMonotonic ==
  (call.op = "calculate_factor_effect" /\ call.factor_score \in 1..4)
  => LET next == calculate_factor_effect(call.factor_score + 1, call.direction, call.sensitivity)
     IN /\ Returned(result)
        /\ Returned(next)
        /\ IF call.direction = "PROTECTIVE"
           THEN EffLess(next.val, result.val)
           ELSE EffLess(result.val, next.val)

\* C10 witness: PROTECTIVE LOW at score 4 is above the same at score 5.
C10_Witness ==
  /\ call.op = "calculate_factor_effect"
  /\ call.factor_score = 4
  /\ call.direction = "PROTECTIVE"
  /\ call.sensitivity = "LOW"
  /\ Returned(result)
  /\ EffLess(calculate_factor_effect(5, "PROTECTIVE", "LOW").val, result.val)

\* the catalog risks applicable to a scenario that have an impact record for a goal
FeedingRisks(scenario_id, goal_id) ==
  {rid \in RiskIdSet :
     /\ Applicable(scenario_id, rid)
     /\ \E i \in DOMAIN RISK_GOAL_IMPACTS[rid] : RISK_GOAL_IMPACTS[rid][i].goal_id = goal_id}

\* the impact record of a risk for a goal
ImpactOf(risk_id, goal_id) ==
  LET found == SelectSeq(RISK_GOAL_IMPACTS[risk_id], LAMBDA imp : imp.goal_id = goal_id)
  IN found[1]

\* probability PERT-mean x impact PERT-mean of one (scenario, risk, goal)
PairContribution(scenario_id, risk_id, goal_id) ==
  LET Product(adjusted, impact) ==
        MulMicro(pert_mean(ValuePPM(adjusted[1]), ValuePPM(adjusted[2]), ValuePPM(adjusted[3])),
                 pert_mean(impact.impact_low * Milli, impact.impact_likely * Milli,
                           impact.impact_high * Milli))
  IN Product(calculate_adjusted_probability(scenario_id, risk_id).val.adjusted_prob,
             ImpactOf(risk_id, goal_id))

\* C11: for every catalog scenario calculate_scenario_goal_profile returns, and
\* for every goal its risk_contributions holds exactly one entry per risk that
\* is applicable to the scenario and has an impact record for the goal, each
\* entry's expected impact is PERT-mean(adjusted probabilities) x
\* PERT-mean(impact), expected_impact is their sum, expected_value is
\* baseline + expected_impact; and PERT-mean(1, 4, 7) = 4.
C11_ExpectedImpactIsPertSum ==
  /\ pert_mean(1, 4, 7) = 4
  /\ (call.op = "calculate_scenario_goal_profile" /\ call.scenario_id \in ScenarioIds)
     => /\ Returned(result)
        /\ \A g \in DOMAIN result.val.goal_scores :
             LET gs == result.val.goal_scores[g]
             IN /\ gs.expected_value = gs.baseline + gs.expected_impact
                /\ gs.expected_impact = TotalImpact(gs.risk_contributions)
                /\ Len(gs.risk_contributions)
                     = Cardinality(FeedingRisks(call.scenario_id, gs.goal_id))
                /\ \A i \in DOMAIN gs.risk_contributions :
                     /\ gs.risk_contributions[i].risk_id
                          \in FeedingRisks(call.scenario_id, gs.goal_id)
                     /\ gs.risk_contributions[i].expected_impact
                          = PairContribution(call.scenario_id,
                                             gs.risk_contributions[i].risk_id, gs.goal_id)

\* C12: for every catalog scenario calculate_scenario_goal_profile returns a G9
\* baseline of 40 + 8 (F6 - 1) + 7 (F7 - 1) of that scenario's scores, between
\* 40 and 100, and for every other goal the baseline of the goal catalog.
C12_G9BaselineFromFactors ==
  (call.op = "calculate_scenario_goal_profile" /\ call.scenario_id \in ScenarioIds)
  => /\ Returned(result)
     /\ \A g \in DOMAIN result.val.goal_scores :
          LET gs == result.val.goal_scores[g]
              F6 == get_factor(SCENARIO_FACTORS[call.scenario_id], "F6")
              F7 == get_factor(SCENARIO_FACTORS[call.scenario_id], "F7")
          IN IF gs.goal_id = "G9"
             THEN /\ Returned(F6)
                  /\ Returned(F7)
                  /\ gs.baseline = (40 + 8 * (F6.val - 1) + 7 * (F7.val - 1)) * Milli
                  /\ 40 * Milli <= gs.baseline
                  /\ gs.baseline <= 100 * Milli
             ELSE gs.baseline = GOALS[gs.goal_id].baseline * Milli

\* |(expected_impact + penalty) x normalizer| x weight of one goal score
WeightedTerm(goal_score, weight, normalize) ==
  LET Term(impact) ==
        Abs(IF ~normalize THEN impact
            ELSE IF NORMALIZERS[goal_score.goal_id] < 0
                 THEN -MulMicro(-NORMALIZERS[goal_score.goal_id], impact)
                 ELSE MulMicro(NORMALIZERS[goal_score.goal_id], impact)) * weight
  IN Term(goal_score.expected_impact
          + (IF goal_score.goal_id = "G9" THEN goal_score.baseline - 100 * Milli ELSE 0))

\* C13: for every catalog scenario and every weight map
\* calculate_weighted_score returns; goal_contributions holds one entry per
\* goal of the weight map that the goal catalog knows, equal to
\* |(expected_impact + penalty) x normalizer| x weight with penalty
\* baseline - 100 for G9 and 0 otherwise; total_score is their sum.
C13_TotalIsWeightedSum ==
  (call.op = "calculate_weighted_score" /\ call.scenario_id \in ScenarioIds)
  => /\ Returned(result)
     /\ result.val.total_score = TotalScore(result.val.goal_contributions)
     /\ LET known == SelectSeq(call.weights, LAMBDA w : w.goal_id \in GoalIdSet)
            profile == calculate_scenario_goal_profile(call.scenario_id)
        IN /\ Len(result.val.goal_contributions) = Len(known)
           /\ \A i \in DOMAIN known :
                /\ result.val.goal_contributions[i].goal_id = known[i].goal_id
                /\ result.val.goal_contributions[i].contribution
                     = WeightedTerm(GoalScoreGet(profile.val.goal_scores, known[i].goal_id)[1],
                                    known[i].weight, call.normalize)

\* C14: rank_scenarios returns; its entries are in non-decreasing total_score
\* and each entry's rank is its 1-based position; called without scenario_ids
\* it returns exactly one entry per scenario of the catalog.
C14_RankingIsDenseAndSorted ==
  call.op = "rank_scenarios"
  => /\ Returned(result)
     /\ \A i \in DOMAIN result.val :
          /\ result.val[i].rank = i
          /\ i > 1 => result.val[i - 1].total_score <= result.val[i].total_score
     /\ ~call.scenario_ids.given
        => /\ Len(result.val) = Cardinality(ScenarioIds)
           /\ {result.val[i].scenario_id : i \in DOMAIN result.val} = ScenarioIds

\* C15: for every catalog scenario calculate_scenario_goal_profile returns and
\* for every goal the expected impact (plus baseline - 100 for G9) has the sign
\* of the goal's normalizer or is 0, so their product is never negative.
C15_AbsNeverFlipsSign ==
  (call.op = "calculate_scenario_goal_profile" /\ call.scenario_id \in ScenarioIds)
  => /\ Returned(result)
     /\ \A g \in DOMAIN result.val.goal_scores :
          LET gs == result.val.goal_scores[g]
              impact == gs.expected_impact
                        + (IF gs.goal_id = "G9" THEN gs.baseline - 100 * Milli ELSE 0)
          IN /\ GOALS[gs.goal_id].direction = "lower_better"
                => (NORMALIZERS[gs.goal_id] > 0 /\ impact >= 0)
             /\ GOALS[gs.goal_id].direction = "higher_better"
                => (NORMALIZERS[gs.goal_id] < 0 /\ impact <= 0)

\* C16: compute_goal_rankings returns and, for every goal, gives the N
\* scenarios of the catalog the scores 1..N, each once, N to the scenario that
\* is best on the goal and 1 to the worst.
C16_OrdinalsAreOneToN ==
  call.op = "compute_goal_rankings"
  => /\ Returned(result)
     /\ \A g \in DOMAIN result.val :
          LET N == Cardinality(ScenarioIds)
          IN /\ Len(result.val[g]) = N
             /\ {result.val[g][i].scenario_id : i \in DOMAIN result.val[g]} = ScenarioIds
             /\ {result.val[g][i].score : i \in DOMAIN result.val[g]} = 1..N
             /\ result.val[g][1].score = N
             /\ result.val[g][N].score = 1

\* C17: rank_scenarios(WEIGHTS_BALANCED) returns and gives S4 a strictly lower
\* total score and a strictly better rank than S9.
C17_S4AheadOfS9 ==
  (call.op = "rank_scenarios" /\ call.weights = WEIGHTS_BALANCED /\ ~call.scenario_ids.given)
  => /\ Returned(result)
     /\ \E i, j \in DOMAIN result.val :
          /\ result.val[i].scenario_id = "S4"
          /\ result.val[j].scenario_id = "S9"
          /\ result.val[i].rank < result.val[j].rank
          /\ result.val[i].total_score < result.val[j].total_score

\* C18: for every catalog scenario and each of the factors F1 .. F7 get_factor
\* returns the scenario's score, an integer in 1..5, and the range check of
\* the audit finds it in range.
C18_EveryFactorScored ==
  /\ call.op = "get_factor"
     => /\ Returned(result)
        /\ result.val \in 1..5
        /\ result.val = SCENARIO_FACTORS[call.scenario_id][call.factor_id]
  /\ call.op = "audit_factor_range"
     => /\ Returned(result)
        /\ result.val.in_range

\* C19: every factor id in a risk's sensitivities and in its requires_factors
\* is a factor of STRUCTURAL_FACTORS: neither audit check finds an unknown one.
C19_ReferencedFactorsDefined ==
  /\ call.op = "audit_sensitivity_references"
     => /\ Returned(result)
        /\ result.val = << >>
        /\ \A i \in DOMAIN RISK_PROFILES[call.risk_id].sensitivities :
             RISK_PROFILES[call.risk_id].sensitivities[i].factor_id
               \in DOMAIN STRUCTURAL_FACTORS
  /\ call.op = "audit_requires_factors"
     => /\ Returned(result)
        /\ \A i \in DOMAIN result.val : result.val[i].finding # "unknown"

\* C20: no risk of the catalog has two sensitivities with the same factor id:
\* the duplicate check of the audit finds none, so the effects collected for a
\* risk are at most one per factor.
C20_NoDuplicateSensitivity ==
  call.op = "audit_duplicate_sensitivities"
  => /\ Returned(result)
     /\ result.val = << >>
     /\ LET ids == factor_ids(RISK_PROFILES[call.risk_id].sensitivities)
        IN \A i, j \in DOMAIN ids : ids[i] = ids[j] => i = j

\* C20 witness: R11, with its four sensitivities F2, F3, F1, F7, was checked
\* and has no duplicate.
C20_Witness ==
  /\ call.op = "audit_duplicate_sensitivities"
  /\ call.risk_id = "R11"
  /\ factor_ids(RISK_PROFILES["R11"].sensitivities) = <<"F2", "F3", "F1", "F7">>
  /\ Returned(result)
  /\ result.val = << >>

\* C21: for every risk of the catalog the set of its affected_goals is exactly
\* the set of goal ids that have an impact record for the risk in
\* RISK_GOAL_IMPACTS: check 2.7 finds no goal declared without an impact and
\* no impact for a goal that is not declared.
C21_AffectedGoalsMatchImpacts ==
  call.op = "audit_goal_consistency"
  => /\ Returned(result)
     /\ result.val.missing_impacts = {}
     /\ result.val.extra_impacts = {}
     /\ call.risk_id \in DOMAIN RISK_GOAL_IMPACTS
     /\ LET affected_goals == RISK_PROFILES[call.risk_id].affected_goals
        IN {affected_goals[i] : i \in DOMAIN affected_goals}
             = impact_goal_ids(RISK_GOAL_IMPACTS[call.risk_id])

\* C21 witness: R01, which declares G1, G2 and G4 and has one impact record for
\* each of them, was checked and is consistent.
C21_Witness ==
  /\ call.op = "audit_goal_consistency"
  /\ call.risk_id = "R01"
  /\ RISK_PROFILES["R01"].affected_goals = <<"G1", "G2", "G4">>
  /\ Len(RISK_GOAL_IMPACTS["R01"]) = 3
  /\ Returned(result)
  /\ result.val = [missing_impacts |-> {}, extra_impacts |-> {}]

\* C22: every impact record has three magnitudes of the same sign, the sign
\* the direction of its goal asks for (none negative for a lower_better goal,
\* none positive for a higher_better goal), and they are ordered
\* |low| <= |likely| <= |high|; checks 3.1 and 3.2 pass on every record.
C22_ImpactSignsAndOrdering ==
  call.op = "audit_impact_record"
  => /\ Returned(result)
     /\ result.val.ordering \in {"positive ordering OK", "negative ordering OK"}
     /\ result.val.sign = "sign OK"
     /\ LET imp == RISK_GOAL_IMPACTS[call.risk_id][call.index]
        IN /\ imp.goal_id \in DOMAIN GOALS
           /\ GOALS[imp.goal_id].direction = "lower_better"
              => /\ 0 <= imp.impact_low
                 /\ imp.impact_low <= imp.impact_likely
                 /\ imp.impact_likely <= imp.impact_high
           /\ GOALS[imp.goal_id].direction # "lower_better"
              => /\ 0 >= imp.impact_low
                 /\ imp.impact_low >= imp.impact_likely
                 /\ imp.impact_likely >= imp.impact_high

\* C22 witness: the record of R02 on the higher_better goal G5, (-5, -15, -40),
\* was checked: negative, ordered by magnitude, sign as the goal asks.
C22_Witness ==
  /\ call.op = "audit_impact_record"
  /\ call.risk_id = "R02"
  /\ LET imp == RISK_GOAL_IMPACTS["R02"][call.index]
     IN /\ imp.goal_id = "G5"
        /\ <<imp.impact_low, imp.impact_likely, imp.impact_high>> = <<0 - 5, 0 - 15, 0 - 40>>
  /\ Returned(result)
  /\ result.val = [ordering |-> "negative ordering OK", sign |-> "sign OK"]

\* C23: every risk of the catalog has base probabilities with
\* 0 < low <= likely <= high < 1: checks 2.1 and 2.2 fail on none.
C23_BaseProbabilitiesOrderedInside ==
  /\ call.op = "audit_probability_ordering"
     => /\ Returned(result)
        /\ result.val # "ordering violated"
        /\ RISK_PROFILES[call.risk_id].base_prob_low
             <= RISK_PROFILES[call.risk_id].base_prob_likely
        /\ RISK_PROFILES[call.risk_id].base_prob_likely
             <= RISK_PROFILES[call.risk_id].base_prob_high
  /\ call.op = "audit_probability_bounds"
     => /\ Returned(result)
        /\ \A i \in DOMAIN result.val : result.val[i].finding = "OK"
        /\ 0 < RISK_PROFILES[call.risk_id].base_prob_low
        /\ RISK_PROFILES[call.risk_id].base_prob_high < Milli

\* C23 witness: R01, with base probabilities 0.20, 0.40 and 0.65, passed the
\* ordering check.
C23_Witness ==
  /\ call.op = "audit_probability_ordering"
  /\ call.risk_id = "R01"
  /\ RISK_PROFILES["R01"].base_prob_low = 200
  /\ RISK_PROFILES["R01"].base_prob_likely = 400
  /\ RISK_PROFILES["R01"].base_prob_high = 650
  /\ result = Ok("ordering OK")

\* C24: every goal of the catalog has at least 2 distinct risks with an impact
\* record for it that is not zero; check 3.3 counts at least 2 records for it.
C24_EveryGoalCovered ==
  call.op = "audit_goal_coverage"
  => /\ Returned(result)
     /\ result.val.count >= 2
     /\ result.val.finding = "contributing risks"
     /\ Cardinality({rid \in DOMAIN RISK_GOAL_IMPACTS :
                       \E i \in DOMAIN RISK_GOAL_IMPACTS[rid] :
                         /\ RISK_GOAL_IMPACTS[rid][i].goal_id = call.goal_id
                         /\ \/ RISK_GOAL_IMPACTS[rid][i].impact_low # 0
                            \/ RISK_GOAL_IMPACTS[rid][i].impact_likely # 0
                            \/ RISK_GOAL_IMPACTS[rid][i].impact_high # 0}) >= 2

\* C24 witness: G6, the goal with the fewest impact records (those of R08, R09
\* and R10), was counted.
C24_Witness ==
  /\ call.op = "audit_goal_coverage"
  /\ call.goal_id = "G6"
  /\ Returned(result)
  /\ result.val.count = 3

\* C26: the 0.2 floor on the base keeps calculate_factor_effect defined for a
\* PROTECTIVE factor at score 0 (deviation -3): for every strength the call
\* returns a finite effect above 0 and does not fail.
C26_ProtectiveFloorAtScoreZero ==
  (/\ call.op = "calculate_factor_effect"
   /\ call.factor_score = 0
   /\ call.direction = "PROTECTIVE")
  => /\ Returned(result)
     /\ EffLess(EFF_ZERO, result.val)

\* C27: rank_scenarios returns one entry per known scenario of its input, with
\* the ranks 1..N each once, and the scenarios that have the same total_score
\* stand in the order they have in the scenario_ids input (catalog order when
\* none is given): ties are not broken and share no rank.
C27_TiesKeepInputOrder ==
  call.op = "rank_scenarios"
  => /\ Returned(result)
     /\ LET ids == IF call.scenario_ids.given THEN call.scenario_ids.ids ELSE ScenarioIdSeq
            known == SelectSeq(ids, LAMBDA sid : sid \in ScenarioIds)
            Tied(total) == SelectSeq(result.val, LAMBDA r : r.total_score = total)
        IN /\ Len(result.val) = Len(known)
           /\ \A i \in DOMAIN result.val : result.val[i].rank = i
           /\ \A j \in DOMAIN result.val :
                [i \in DOMAIN Tied(result.val[j].total_score) |->
                   Tied(result.val[j].total_score)[i].scenario_id]
                  = SelectSeq(known,
                              LAMBDA sid : \E i \in DOMAIN result.val :
                                /\ result.val[i].scenario_id = sid
                                /\ result.val[i].total_score = result.val[j].total_score)

\* C28: for every catalog scenario, the risks of calculate_scenario_risk_profile
\* are exactly the catalog risks every gate of which the scenario satisfies
\* (risks with no gate included), and the display modifier of an applicable
\* risk, a product of effects above 0, is never 0.
C28_ProfileHoldsExactlyApplicableRisks ==
  /\ (call.op = "calculate_scenario_risk_profile" /\ call.scenario_id \in ScenarioIds)
     => /\ Returned(result)
        /\ {result.val.risks[i].risk_id : i \in DOMAIN result.val.risks}
             = {risk_id \in RiskIdSet : Applicable(call.scenario_id, risk_id)}
        /\ \A i \in DOMAIN result.val.risks : EffLess(EFF_ZERO, result.val.risks[i].modifier)
  /\ (CatalogCall("calculate_adjusted_probability")
        /\ Applicable(call.scenario_id, call.risk_id))
     => /\ Returned(result)
        /\ EffLess(EFF_ZERO, result.val.modifier)

\* the weight map with every weight multiplied by k
ScaledWeights(weights, k) ==
  [i \in DOMAIN weights |-> [weights[i] EXCEPT !.weight = k * @]]

\* C29: multiplying every goal weight by the same k > 0 multiplies every
\* total_score of rank_scenarios by k and leaves order and ranks as they are;
\* with every weight 0 every total_score is 0 and the scenarios come back in
\* input order.
C29_RankingDependsOnRelativeWeights ==
  call.op = "rank_scenarios"
  => /\ Returned(result)
     /\ \A k \in {2, 3} :
          LET scaled == rank_scenarios(ScaledWeights(call.weights, k), call.scenario_ids)
          IN /\ Returned(scaled)
             /\ Len(scaled.val) = Len(result.val)
             /\ \A i \in DOMAIN result.val :
                  /\ scaled.val[i].scenario_id = result.val[i].scenario_id
                  /\ scaled.val[i].rank = result.val[i].rank
                  /\ scaled.val[i].total_score = k * result.val[i].total_score
     /\ LET zero == rank_scenarios(ScaledWeights(call.weights, 0), call.scenario_ids)
            ids == IF call.scenario_ids.given THEN call.scenario_ids.ids ELSE ScenarioIdSeq
            known == SelectSeq(ids, LAMBDA sid : sid \in ScenarioIds)
        IN /\ Returned(zero)
           /\ Len(zero.val) = Len(known)
           /\ \A i \in DOMAIN known :
                /\ zero.val[i].scenario_id = known[i]
                /\ zero.val[i].total_score = 0

\* C30: for every catalog scenario and catalog risk the modifier and the
\* breakdown returned by calculate_adjusted_probability are those returned by
\* calculate_scenario_modifier: 0 with the non-applicability marker when a gate
\* fails, otherwise the product of the effects listed in the breakdown; the
\* adjusted probabilities are the logistic transform of the base probabilities
\* by those effects, not by their product.
C30_ModifierSameInBothPlaces ==
  CatalogCall("calculate_adjusted_probability")
  => /\ Returned(result)
     /\ LET shown == calculate_scenario_modifier(call.scenario_id, call.risk_id)
            effects == [i \in DOMAIN result.val.breakdown |-> result.val.breakdown[i].effect]
            risk_profile == RISK_PROFILES[call.risk_id]
        IN /\ Returned(shown)
           /\ shown.val.modifier = result.val.modifier
           /\ shown.val.breakdown = result.val.breakdown
           /\ IF Applicable(call.scenario_id, call.risk_id)
              THEN /\ result.val.modifier = DisplayModifier(effects, EFF_ONE)
                   /\ result.val.adjusted_prob
                        = <<_logistic_transform(risk_profile.base_prob_low, effects).val.prob,
                            _logistic_transform(risk_profile.base_prob_likely, effects).val.prob,
                            _logistic_transform(risk_profile.base_prob_high, effects).val.prob>>
              ELSE /\ result.val.modifier = EFF_ZERO
                   /\ Len(result.val.breakdown) = 1
                   /\ result.val.breakdown[1].text = NOT_APPLICABLE

====
